---- MODULE Spec2Model ----
(***************************************************************************)
(* A model of mcp-doffin (src/mcp-doffin/mcp_doffin.py): the retrying      *)
(* fetch, the two extractors parse_search and parse_notice, and the        *)
(* get_notice tool.                                                        *)
(*                                                                         *)
(* Python strings are sequences of one-character strings, so that          *)
(* startswith, slicing, strip and concatenation are computed, not assumed. *)
(* Python values that can sit in a result dictionary are tagged records:   *)
(* None, str, num, bool, list and dict.                                    *)
(***************************************************************************)
EXTENDS Integers, Sequences, FiniteSets, TLC

VARIABLES
    \* ---- the get_notice tool and fetch (FetchSpec)
    pc,              \* where the tool invocation is: idle, attempt, sleep, parse, done
    notice_id,       \* get_notice's argument
    url,             \* get_notice's argument
    target_url,      \* the URL handed to fetch
    attempt_number,  \* tenacity's retry_state.attempt_number
    delays,          \* the waits between this invocation's attempts, in tenths of a second
    requests,        \* the GET requests issued by this invocation, in order
    outcomes,        \* what each attempt of this invocation met, in order
    fetched,         \* how fetch ended: nothing yet, a returned text, a raised error
    ret,             \* how the tool ended: nothing yet, a returned record, a raised error
    calls,           \* tool invocations completed so far
    \* ---- parse_notice as a pure function (NoticeSpec)
    n_pc, n_html, n_url, n_out,
    \* ---- parse_search as a pure function (SearchSpec)
    s_pc, s_html, s_items,
    \* ---- build_search_url as a pure function (UrlSpec)
    u_pc, u_p, u_out,
    \* ---- fetch calls in progress at once (ConcSpec)
    fetches,         \* each call's position, attempt number, responses and result
    \* ---- RobustMCPClient (ClientSpec)
    state,               \* self.state
    total_requests,      \* self.total_requests
    successful_requests, \* self.successful_requests
    failed_requests,     \* self.failed_requests
    tool_calls,          \* the call_tool invocations: position, attempt, result
    batch,               \* how they were started: alone, by gather, by the fail_fast loop
    max_concurrent,      \* the semaphore's size
    completed,           \* the invocations in the order they ended
    results,             \* what batch_call_tools returned or raised
    \* ---- ClientWithConnectionPool (PoolSpec)
    available_clients,   \* how many clients self.available_clients holds
    total_clients,       \* self.total_clients
    lock,                \* the task holding self.lock
    workers,             \* where each task using the pool is
    to_initialize,       \* the passes initialize still has to make
    min_connections,     \* self.min_connections
    max_connections      \* self.max_connections

fetchVars == <<pc, notice_id, url, target_url, attempt_number, delays, requests,
               outcomes, fetched, ret, calls>>
noticeVars == <<n_pc, n_html, n_url, n_out>>
searchVars == <<s_pc, s_html, s_items>>
urlVars == <<u_pc, u_p, u_out>>
coreVars == <<fetchVars, noticeVars, searchVars, urlVars>>
concVars == <<fetches>>
clientVars == <<state, total_requests, successful_requests, failed_requests,
                tool_calls, batch, max_concurrent, completed, results>>
poolVars == <<available_clients, total_clients, lock, workers, to_initialize,
              min_connections, max_connections>>
exampleVars == <<concVars, clientVars, poolVars>>
vars == <<fetchVars, noticeVars, searchVars, urlVars, exampleVars>>

----------------------------------------------------------------------------
(* Python strings and values *)

\* A str is its explicit characters s followed by pad filler characters: pad
\* stands for a run too long to enumerate (the test's "x" * 250000).
PyNone == [type |-> "none"]
PyStr(s) == [type |-> "str", s |-> s, pad |-> 0]
PyLong(s, pad) == [type |-> "str", s |-> s, pad |-> pad]
PyNum(n) == [type |-> "num", n |-> n]
PyBool(b) == [type |-> "bool", b |-> b]
PyList(items) == [type |-> "list", items |-> items]
PyDict(d) == [type |-> "dict", d |-> d]

\* Python truth value testing, as used by `or`, `and`, `not` and `if`.
Truthy(v) ==
    CASE v.type = "none" -> FALSE
      [] v.type = "str"  -> Len(v.s) + v.pad > 0
      [] v.type = "num"  -> v.n # 0
      [] v.type = "bool" -> v.b
      [] v.type = "list" -> v.items # <<>>
      [] v.type = "dict" -> DOMAIN v.d # {}

\* a or b
PyOr(a, b) == IF Truthy(a) THEN a ELSE b

\* s.startswith(p)
StartsWith(s, p) == Len(s) >= Len(p) /\ SubSeq(s, 1, Len(p)) = p

\* s.endswith(p), the CSS [attr$=p]
EndsWith(s, p) == Len(s) >= Len(p) /\ SubSeq(s, Len(s) - Len(p) + 1, Len(s)) = p

\* p in s, the CSS [attr*=p]
Contains(s, p) ==
    \E i \in 1..(Len(s) - Len(p) + 1) : SubSeq(s, i, i + Len(p) - 1) = p

BASE == <<"h","t","t","p","s",":","/","/","d","o","f","f","i","n",".","n","o">>

Min(S) == CHOOSE x \in S : \A y \in S : x <= y

Max(S) == CHOOSE x \in S : \A y \in S : x >= y

----------------------------------------------------------------------------
(* json.loads, on the JSON subset the model's pages use: objects, arrays,  *)
(* strings without escapes, non-negative integers, true, false, null, with *)
(* blanks and newlines between tokens.  A parse result is                  *)
(* [ok, v, next]: whether a value was read, the value, the next position.  *)

JsonFail == [ok |-> FALSE, v |-> PyNone, next |-> 0]
JsonOk(v, next) == [ok |-> TRUE, v |-> v, next |-> next]

JsonWs == {" ", "\n"}
JsonDigits == {"0","1","2","3","4","5","6","7","8","9"}

RECURSIVE SkipWs(_, _)
SkipWs(s, i) == IF i <= Len(s) /\ s[i] \in JsonWs THEN SkipWs(s, i + 1) ELSE i

\* s[i:].startswith(p)
At(s, i, p) == i + Len(p) - 1 <= Len(s) /\ SubSeq(s, i, i + Len(p) - 1) = p

DigitValue(c) ==
    CASE c = "0" -> 0 [] c = "1" -> 1 [] c = "2" -> 2 [] c = "3" -> 3 [] c = "4" -> 4
      [] c = "5" -> 5 [] c = "6" -> 6 [] c = "7" -> 7 [] c = "8" -> 8 [] c = "9" -> 9

RECURSIVE JsonNumber(_, _, _)
JsonNumber(s, i, acc) ==
    IF i <= Len(s) /\ s[i] \in JsonDigits
    THEN JsonNumber(s, i + 1, 10 * acc + DigitValue(s[i]))
    ELSE JsonOk(PyNum(acc), i)

\* A string starts at the quote s[i] and runs to the next quote.
JsonString(s, i) ==
    LET close == {j \in (i + 1)..Len(s) : s[j] = "\""}
    IN  IF i > Len(s) \/ s[i] # "\"" \/ close = {}
        THEN JsonFail
        ELSE JsonOk(PyStr(SubSeq(s, i + 1, Min(close) - 1)), Min(close) + 1)

RECURSIVE JsonValue(_, _)
RECURSIVE JsonItems(_, _, _)
RECURSIVE JsonMembers(_, _, _)

\* The items of an array after "[" or after a comma, up to and with "]".
JsonItems(s, i, acc) ==
    LET item == JsonValue(s, SkipWs(s, i))
        j == SkipWs(s, item.next)
    IN  IF ~item.ok THEN JsonFail
        ELSE IF At(s, j, <<",">>) THEN JsonItems(s, j + 1, Append(acc, item.v))
        ELSE IF At(s, j, <<"]">>) THEN JsonOk(PyList(Append(acc, item.v)), j + 1)
        ELSE JsonFail

\* The members of an object after "{" or after a comma, up to and with "}".
\* A repeated key keeps its last value, as a Python dict does.
JsonMembers(s, i, acc) ==
    LET key == JsonString(s, SkipWs(s, i))
        c == SkipWs(s, key.next)
        val == JsonValue(s, SkipWs(s, c + 1))
        j == SkipWs(s, val.next)
        d == [k \in DOMAIN acc \cup {key.v.s} |-> IF k = key.v.s THEN val.v ELSE acc[k]]
    IN  IF ~key.ok \/ ~At(s, c, <<":">>) THEN JsonFail
        ELSE IF ~val.ok THEN JsonFail
        ELSE IF At(s, j, <<",">>) THEN JsonMembers(s, j + 1, d)
        ELSE IF At(s, j, <<"}">>) THEN JsonOk(PyDict(d), j + 1)
        ELSE JsonFail

JsonValue(s, i) ==
    IF i > Len(s) THEN JsonFail
    ELSE IF s[i] = "\"" THEN JsonString(s, i)
    ELSE IF s[i] = "0" THEN JsonOk(PyNum(0), i + 1)
    ELSE IF s[i] \in JsonDigits THEN JsonNumber(s, i, 0)
    ELSE IF At(s, i, <<"t","r","u","e">>) THEN JsonOk(PyBool(TRUE), i + 4)
    ELSE IF At(s, i, <<"f","a","l","s","e">>) THEN JsonOk(PyBool(FALSE), i + 5)
    ELSE IF At(s, i, <<"n","u","l","l">>) THEN JsonOk(PyNone, i + 4)
    ELSE IF s[i] = "[" THEN
        (IF At(s, SkipWs(s, i + 1), <<"]">>)
         THEN JsonOk(PyList(<<>>), SkipWs(s, i + 1) + 1)
         ELSE JsonItems(s, i + 1, <<>>))
    ELSE IF s[i] = "{" THEN
        (IF At(s, SkipWs(s, i + 1), <<"}">>)
         THEN JsonOk(PyDict(<<>>), SkipWs(s, i + 1) + 1)
         ELSE JsonMembers(s, i + 1, <<>>))
    ELSE JsonFail

\* json.loads(s): ok is FALSE where Python raises JSONDecodeError.
json_loads(s) ==
    LET r == JsonValue(s, SkipWs(s, 1))
    IN  IF r.ok /\ SkipWs(s, r.next) = Len(s) + 1 THEN r ELSE JsonFail

----------------------------------------------------------------------------
(* The parsed page.  HTMLParser(html) is a library call; the model's page  *)
(* is what the extractors read of its result:                              *)
(*   blocks  the texts of the script[type='application/ld+json'] elements, *)
(*           in document order                                             *)
(*   els     the other elements of a notice page, in document order        *)
(*   cards   the card elements of a search page, each the sequence of its  *)
(*           descendant elements in document order                         *)
(*   body    whether t.body is not None                                    *)
(*   in_head whether the scripts sit in the head (they come before any     *)
(*           body content) or in the body, after the elements              *)
(*   pad     the length of a trailing run of filler text                   *)
(* An element is [tag, cls, test, within, prev_dt, attrs, text]: its tag,  *)
(* its classes, its data-test value ("" for none), the markers of its      *)
(* ancestors that the descendant selectors ask for, the text of a dt that  *)
(* immediately precedes it, its other attributes (a name maps to a str, or *)
(* to None when the attribute has no value) and its text.                  *)

Node(tag, cls, test, attrs, text) ==
    [tag |-> tag, cls |-> cls, test |-> test, within |-> {}, prev_dt |-> <<>>,
     attrs |-> attrs, text |-> text]

Inside(marker, el) == [el EXCEPT !.within = {marker}]

AfterDt(label, el) == [el EXCEPT !.prev_dt = label]

NoAttrs == [a \in {} |-> PyNone]

Whitespace == {" ", "\n", "\t"}

\* str.strip()
RECURSIVE LStrip(_)
LStrip(s) == IF s # <<>> /\ Head(s) \in Whitespace THEN LStrip(Tail(s)) ELSE s

RECURSIVE RStrip(_)
RStrip(s) ==
    IF s # <<>> /\ s[Len(s)] \in Whitespace THEN RStrip(SubSeq(s, 1, Len(s) - 1)) ELSE s

Strip(s) == RStrip(LStrip(s))

\* el.text(strip=True)
NodeText(el) == PyStr(Strip(el.text))

\* el.attributes.get(name)
AttrGet(el, name) == IF name \in DOMAIN el.attrs THEN el.attrs[name] ELSE PyNone

\* [name*='part'], [name$='part']: the attribute is there, with a value
AttrContains(el, name, part) ==
    /\ name \in DOMAIN el.attrs
    /\ el.attrs[name].type = "str"
    /\ Contains(el.attrs[name].s, part)

AttrEndsWith(el, name, part) ==
    /\ name \in DOMAIN el.attrs
    /\ el.attrs[name].type = "str"
    /\ EndsWith(el.attrs[name].s, part)

\* What css_first returns when nothing matches: None
NoNode == [tag |-> "", cls |-> {}, test |-> "", within |-> {}, prev_dt |-> <<>>,
           attrs |-> NoAttrs, text |-> <<>>]

Found(el) == el # NoNode

RECURSIVE Join(_)
Join(ss) == IF ss = <<>> THEN <<>> ELSE Head(ss) \o Join(Tail(ss))

\* t.body.text(): every text node under body, with the texts of the scripts
\* that sit in the body
BodyText(html) ==
    PyLong(Join([i \in 1..Len(html.els) |-> html.els[i].text])
             \o (IF html.in_head THEN <<>> ELSE Join(html.blocks)),
           html.pad)

\* The html argument itself: the markup around each text stands as < and >.
Markup(text) == <<"<">> \o text \o <<">">>

SourceText(html) ==
    PyLong(Join([i \in 1..Len(html.blocks) |-> Markup(html.blocks[i])])
             \o Join([i \in 1..Len(html.els) |-> Markup(html.els[i].text)]),
           html.pad)

\* len(v) of a str
StrLen(v) == Len(v.s) + v.pad

\* v[:k] of a str
Slice(v, k) ==
    IF k <= Len(v.s) THEN PyLong(SubSeq(v.s, 1, k), 0)
    ELSE PyLong(v.s, IF v.pad <= k - Len(v.s) THEN v.pad ELSE k - Len(v.s))

\* a + b of two strs, the first without filler
StrConcat(a, b) == PyLong(a.s \o b.s, b.pad)

----------------------------------------------------------------------------
(* parse_notice *)

kSourceUrl == <<"s","o","u","r","c","e","_","u","r","l">>
kTitle == <<"t","i","t","l","e">>
kBuyer == <<"b","u","y","e","r">>
kDescription == <<"d","e","s","c","r","i","p","t","i","o","n">>
kPublishedAt == <<"p","u","b","l","i","s","h","e","d","_","a","t">>
kDeadlineAt == <<"d","e","a","d","l","i","n","e","_","a","t">>
kCpv == <<"c","p","v">>
kAttachments == <<"a","t","t","a","c","h","m","e","n","t","s">>
kRawHtml == <<"r","a","w","_","h","t","m","l">>
kName == <<"n","a","m","e">>
kUrl == <<"u","r","l">>

RawHtmlLimit == 200000

\* d.get(k)
DictGet(d, k) == IF k \in DOMAIN d THEN d[k] ELSE PyNone

\* d.setdefault(k, v): a key already set is kept.
DictSetDefault(d, k, v) == [x \in DOMAIN d \cup {k} |-> IF x \in DOMAIN d THEN d[x] ELSE v]

\* d[k] = v
DictSet(d, k, v) == [x \in DOMAIN d \cup {k} |-> IF x = k THEN v ELSE d[x]]

\* d.update(j) with the merge policy of the HTML fallback: a key already set is kept.
DictUpdateIfUnset(d, j) == [x \in DOMAIN d \cup DOMAIN j |-> IF x \in DOMAIN d THEN d[x] ELSE j[x]]

\* d.update(j)
DictUpdate(d, j) == [x \in DOMAIN d \cup DOMAIN j |-> IF x \in DOMAIN j THEN j[x] ELSE d[x]]

\* One pass of the loop over the JSON-LD scripts: a text that json.loads
\* rejects raises, the except clause passes; a dict is merged; anything else
\* is left alone.
MergeBlock(out, text) ==
    LET j == json_loads(text)
    IN  IF j.ok /\ j.v.type = "dict" THEN DictUpdate(out, j.v.d) ELSE out

\* MergeBlocks with the try around the loop: the first failing block ends it.
RECURSIVE MergeBlocksAbort(_, _)
MergeBlocksAbort(out, blocks) ==
    IF blocks = <<>> \/ ~json_loads(Head(blocks)).ok THEN out
    ELSE MergeBlocksAbort(MergeBlock(out, Head(blocks)), Tail(blocks))

RECURSIVE MergeBlocks(_, _)
MergeBlocks(out, blocks) ==
    IF blocks = <<>> THEN out
    ELSE MergeBlocks(MergeBlock(out, Head(blocks)), Tail(blocks))

SelH1(el) == el.tag = "h1"
SelTestTitle(el) == el.test = "title"
SelNoticeBuyer(el) ==
    \/ el.test = "buyer-name"
    \/ "value" \in el.cls /\ ".buyer" \in el.within
    \/ el.tag = "dd" /\ Contains(el.prev_dt, <<"O","p","p","d","r","a","g","s","g","i","v","e","r">>)
SelDescription(el) ==
    "notice-description" \in el.cls \/ el.test = "description" \/ el.tag = "article"
SelTimePublished(el) ==
    el.tag = "time" /\ "datetime" \in DOMAIN el.attrs /\ el.test = "published"
SelTestPublished(el) == el.test = "published"
SelTimeDeadline(el) ==
    el.tag = "time" /\ "datetime" \in DOMAIN el.attrs /\ el.test = "deadline"
SelTestDeadline(el) == el.test = "deadline"
SelNoticeCpv(el) ==
    "tag" \in el.cls /\ el.within \cap {"[data-test='cpv']", ".cpv"} # {}
SelAttachment(el) ==
    /\ el.tag = "a"
    /\ \/ AttrEndsWith(el, "href", <<".","p","d","f">>)
       \/ AttrContains(el, "href", <<"/","D","o","c","u","m","e","n","t","/">>)
       \/ AttrContains(el, "href", <<"/","d","o","c","u","m","e","n","t","/">>)

\* The selectors of parse_search.
SelNoticeTitle(el) == "notice-title" \in el.cls
SelHeading(el) == el.tag \in {"h2", "h3"}
SelNoticesLink(el) == el.tag = "a" /\ AttrContains(el, "href", <<"/","n","o","t","i","c","e","s","/">>)
SelCardBuyer(el) ==
    \/ "notice-buyer" \in el.cls
    \/ el.test = "buyer"
    \/ el.tag = "dd" /\ Contains(el.prev_dt, <<"O","p","p","d","r","a","g","s","g","i","v","e","r">>)
SelCardPublished(el) == "notice-published" \in el.cls \/ el.test = "published"
SelCardDeadline(el) == "notice-deadline" \in el.cls \/ el.test = "deadline"
SelCardCpv(el) ==
    "tag" \in el.cls /\ el.within \cap {".notice-cpv", "[data-test='cpv']", ".cpv"} # {}

\* Whether el matches the selector, for the selectors the two extractors use.
Matches(el, sel) ==
    CASE sel = "h1" -> SelH1(el)
      [] sel = "[data-test='title']" -> SelTestTitle(el)
      [] sel = "[data-test='buyer-name'], .buyer .value, dt:contains('Oppdragsgiver') + dd" ->
            SelNoticeBuyer(el)
      [] sel = ".notice-description, [data-test='description'], article" ->
            SelDescription(el)
      [] sel = "time[datetime][data-test='published']" -> SelTimePublished(el)
      [] sel = "[data-test='published']" -> SelTestPublished(el)
      [] sel = "time[datetime][data-test='deadline']" -> SelTimeDeadline(el)
      [] sel = "[data-test='deadline']" -> SelTestDeadline(el)
      [] sel = "[data-test='cpv'] .tag, .cpv .tag" -> SelNoticeCpv(el)
      [] sel = "a[href$='.pdf'], a[href*='/Document/'], a[href*='/document/']" ->
            SelAttachment(el)
      [] sel = ".notice-title" -> SelNoticeTitle(el)
      [] sel = "h2, h3" -> SelHeading(el)
      [] sel = "a[href*='/notices/']" -> SelNoticesLink(el)
      [] sel = ".notice-buyer, [data-test='buyer'], dt:contains('Oppdragsgiver') + dd" ->
            SelCardBuyer(el)
      [] sel = ".notice-published, [data-test='published']" -> SelCardPublished(el)
      [] sel = ".notice-deadline, [data-test='deadline']" -> SelCardDeadline(el)
      [] sel = ".notice-cpv .tag, [data-test='cpv'] .tag, .cpv .tag" -> SelCardCpv(el)

\* css(sel): the matching elements in document order
Css(els, sel) == SelectSeq(els, LAMBDA el : Matches(el, sel))

\* css_first(sel): the first match in document order, or None
CssFirst(els, sel) ==
    LET hits == {i \in 1..Len(els) : Matches(els[i], sel)}
    IN  IF hits = {} THEN NoNode ELSE els[Min(hits)]

\* parse_notice's txt(sel): the stripped text of the first match, or None
NoticeTxt(els, sel) ==
    IF Found(CssFirst(els, sel)) THEN NodeText(CssFirst(els, sel)) ELSE PyNone

\* pub.attributes.get("datetime") if pub else txt("[data-test=...]")
NoticeTime(els, selTime, selText) ==
    IF Found(CssFirst(els, selTime))
    THEN AttrGet(CssFirst(els, selTime), "datetime")
    ELSE NoticeTxt(els, selText)

\* The HTML-derived value of each field, before structured data is looked at.
HtmlTitle(els) == PyOr(NoticeTxt(els, "h1"), NoticeTxt(els, "[data-test='title']"))
HtmlBuyer(els) ==
    NoticeTxt(els, "[data-test='buyer-name'], .buyer .value, dt:contains('Oppdragsgiver') + dd")
HtmlDescription(els) ==
    NoticeTxt(els, ".notice-description, [data-test='description'], article")
HtmlPublishedAt(els) ==
    NoticeTime(els, "time[datetime][data-test='published']", "[data-test='published']")
HtmlDeadlineAt(els) ==
    NoticeTime(els, "time[datetime][data-test='deadline']", "[data-test='deadline']")
HtmlCpv(els) ==
    LET tags == Css(els, "[data-test='cpv'] .tag, .cpv .tag")
    IN  PyList([i \in 1..Len(tags) |-> NodeText(tags[i])])

\* FillField with the HTML value taking precedence over structured data.
FillFieldHtmlFirst(out, k, htmlValue) == DictSet(out, k, PyOr(htmlValue, DictGet(out, k)))

\* out[k] = out.get(k) or <html value>
FillField(out, k, htmlValue) == DictSet(out, k, PyOr(DictGet(out, k), htmlValue))

\* if "cpv" not in out or not out["cpv"]: out["cpv"] = [...]
FillCpv(out, els) ==
    IF kCpv \notin DOMAIN out \/ ~Truthy(out[kCpv]) THEN DictSet(out, kCpv, HtmlCpv(els))
    ELSE out

\* href = BASE + href when it does not start with "http"
ResolveHref(href) ==
    IF Truthy(href) /\ ~StartsWith(href.s, <<"h","t","t","p">>) THEN StrConcat(PyStr(BASE), href)
    ELSE href

Attachment(name, href) == PyDict([k \in {kName, kUrl} |-> IF k = kName THEN name ELSE href])

\* The loop over the attachment anchors: an anchor whose href is falsy adds nothing.
RECURSIVE Attachments(_)
Attachments(anchors) ==
    IF anchors = <<>> THEN <<>>
    ELSE LET a == Head(anchors)
             href == ResolveHref(AttrGet(a, "href"))
         IN  (IF Truthy(href) THEN <<Attachment(NodeText(a), href)>> ELSE <<>>)
             \o Attachments(Tail(anchors))

\* RawHtml without the slice.
RawHtmlUncut(html) == IF html.body THEN BodyText(html) ELSE SourceText(html)

\* (t.body.text() if t.body else html)[:200000]
RawHtml(html) == Slice(IF html.body THEN BodyText(html) ELSE SourceText(html), RawHtmlLimit)

parse_notice(html, u) ==
    LET out0 == [k \in {kSourceUrl} |-> PyStr(u)]
        out1 == MergeBlocks(out0, html.blocks)
        out2 == FillField(out1, kTitle, HtmlTitle(html.els))
        out3 == FillField(out2, kBuyer, HtmlBuyer(html.els))
        out4 == FillField(out3, kDescription, HtmlDescription(html.els))
        out5 == FillField(out4, kPublishedAt, HtmlPublishedAt(html.els))
        out6 == FillField(out5, kDeadlineAt, HtmlDeadlineAt(html.els))
        out7 == FillCpv(out6, html.els)
        out8 == DictSet(out7, kAttachments,
                        PyList(Attachments(Css(html.els,
                                               "a[href$='.pdf'], a[href*='/Document/'], a[href*='/document/']"))))
    IN  DictSet(out8, kRawHtml, RawHtml(html))

----------------------------------------------------------------------------
(* The inputs parse_notice is run on *)

MaxBlocks == 2
MaxEls == 2
\* Scripts and elements of one page, together.
MaxNodes == 3

Href(h) == [a \in {"href"} |-> PyStr(h)]
Datetime(v) == [a \in {"datetime"} |-> v]

\* Elements a notice page is drawn from, in document order.
NoticeTemplate == <<
    Node("span", {}, "title", NoAttrs, <<"U">>),
    Node("h1", {}, "", NoAttrs, <<" ","T"," ">>),
    Node("div", {}, "buyer-name", NoAttrs, <<"B">>),
    Node("article", {}, "", NoAttrs, <<"D">>),
    Node("time", {}, "published", Datetime(PyStr(<<"2","0","2","4">>)), <<"P">>),
    Node("span", {}, "published", NoAttrs, <<"Q">>),
    Node("time", {}, "deadline", Datetime(PyStr(<<"2","0","2","5">>)), <<"E">>),
    Inside(".cpv", Node("span", {"tag"}, "", NoAttrs, <<"7","2">>)),
    Node("a", {}, "", Href(<<"/","D","o","c","u","m","e","n","t","/","1",".","p","d","f">>), <<"D","o","c">>),
    Node("a", {}, "", Href(<<"f",".","p","d","f">>), <<>>),
    Node("a", {}, "", Href(<<"h","t","t","p","s",":","/","/","x",".","n","o","/","y",".","p","d","f">>), <<"A","b","s">>)
>>

\* JSON-LD script texts a notice page is drawn from.
BlockPool == {
    <<"{"," ","b","a","d"," ","}">>,
    <<"[","1","]">>,
    <<"{","\"","t","i","t","l","e","\"",":","\"","J","\"",",","\"","b","u","y","e","r","\"",":","\"","K","\"",",","\"","d","e","s","c","r","i","p","t","i","o","n","\"",":","\"","L","\"","}">>,
    <<"{","\"","t","i","t","l","e","\"",":","\"","\"",",","\"","c","p","v","\"",":","[","]",",","\"","p","u","b","l","i","s","h","e","d","_","a","t","\"",":","n","u","l","l","}">>,
    <<"{","\"","s","o","u","r","c","e","_","u","r","l","\"",":","\"","e","\"",",","\"","c","p","v","\"",":","[","\"","9","\"","]",",","\"","d","e","a","d","l","i","n","e","_","a","t","\"",":","\"","d","\"","}">>,
    <<"{","\"","t","i","t","l","e","\"",":","\"","M","\"",",","\"","a","t","t","a","c","h","m","e","n","t","s","\"",":","[","]",",","\"","r","a","w","_","h","t","m","l","\"",":","\"","r","\"","}">>
}

Pads == {0, RawHtmlLimit - 1, RawHtmlLimit + 50000}

Urls == {BASE \o <<"/","n","o","t","i","c","e","s","/","1">>, <<"h","t","t","p",":","/","/","t">>}

\* The sets of at most k positions of a sequence of n elements.
Picks(n, k) == {S \in SUBSET (1..n) : Cardinality(S) <= k}

\* The elements of seq at the positions S, in document order.
Sub(seq, S) ==
    LET at == SelectSeq([i \in 1..Len(seq) |-> [i |-> i, x |-> seq[i]]],
                        LAMBDA e : e.i \in S)
    IN  [i \in 1..Len(at) |-> at[i].x]

NoticePage(b, e, body, in_head, pad) ==
    [blocks |-> b, els |-> e, cards |-> <<>>, body |-> body, in_head |-> in_head,
     pad |-> pad, unclosed |-> FALSE]

\* A page without a body has no body elements and its scripts sit in the head.
WellFormed(html) == html.body \/ (html.els = <<>> /\ html.in_head)

EmptyPage ==
    [blocks |-> <<>>, els |-> <<>>, cards |-> <<>>, body |-> TRUE, in_head |-> TRUE,
     pad |-> 0, unclosed |-> FALSE]

----------------------------------------------------------------------------
(* The variables a specification leaves alone *)

FetchOff ==
    /\ pc = "off" /\ notice_id = PyNone /\ url = PyNone /\ target_url = PyNone
    /\ attempt_number = 0 /\ delays = <<>> /\ requests = <<>> /\ outcomes = <<>>
    /\ fetched = [kind |-> "none"] /\ ret = [kind |-> "none"] /\ calls = 0

NoticeOff == n_pc = "off" /\ n_html = EmptyPage /\ n_url = <<>> /\ n_out = <<>>

SearchOff == s_pc = "off" /\ s_html = EmptyPage /\ s_items = <<>>

UrlOff == u_pc = "off" /\ u_p = <<>> /\ u_out = [kind |-> "none"]

ConcOff == fetches = <<>>

ClientOff ==
    /\ state = "off" /\ total_requests = 0 /\ successful_requests = 0
    /\ failed_requests = 0 /\ tool_calls = <<>> /\ batch = "none"
    /\ max_concurrent = 0 /\ completed = <<>> /\ results = [kind |-> "none"]

PoolOff ==
    /\ available_clients = 0 /\ total_clients = 0 /\ lock = 0 /\ workers = <<>>
    /\ to_initialize = 0 /\ min_connections = 0 /\ max_connections = 0

ExamplesOff == ConcOff /\ ClientOff /\ PoolOff

----------------------------------------------------------------------------
(* NoticeSpec: parse_notice applied to every page and url of the bounds *)

NoticeInit ==
    /\ n_pc = "call"
    /\ \E k \in 0..MaxBlocks :
         \E b \in [1..k -> BlockPool] :
           \E S \in Picks(Len(NoticeTemplate), Min({MaxEls, MaxNodes - k})) :
             \E body \in BOOLEAN, in_head \in BOOLEAN, pad \in Pads :
                /\ n_html = NoticePage(b, Sub(NoticeTemplate, S), body, in_head, pad)
                /\ WellFormed(n_html)
    /\ n_url \in Urls
    /\ n_out = <<>>
    /\ FetchOff /\ SearchOff /\ UrlOff /\ ExamplesOff

ParseNoticeCall ==
    /\ n_pc = "call"
    /\ n_out' = parse_notice(n_html, n_url)
    /\ n_pc' = "done"
    /\ UNCHANGED <<n_html, n_url, fetchVars, searchVars, urlVars, exampleVars>>

NoticeNext == ParseNoticeCall

NoticeSpec == NoticeInit /\ [][NoticeNext]_vars

----------------------------------------------------------------------------
(* parse_search *)

kNoticeId == <<"n","o","t","i","c","e","_","i","d">>
kLink == <<"l","i","n","k">>

\* parse_search's txt(sel): the stripped text of the card's first match, or ""
CardTxt(card, sel) ==
    IF Found(CssFirst(card, sel)) THEN NodeText(CssFirst(card, sel)) ELSE PyStr(<<>>)

\* The title without the fallback to the link's text.
CardTitleNoLinkText(card) ==
    PyOr(CardTxt(card, ".notice-title"), CardTxt(card, "h2, h3"))

\* The title cascade: .notice-title, else the first h2 or h3, else the text
\* of the first notices link.
CardTitle(card) ==
    LET title == PyOr(CardTxt(card, ".notice-title"), CardTxt(card, "h2, h3"))
        link_title == CssFirst(card, "a[href*='/notices/']")
    IN  IF ~Truthy(title) /\ Found(link_title) THEN NodeText(link_title) ELSE title

\* The href of the first notices link, prefixed with BASE when it does not
\* start with "http"; None without such a link.
CardLink(card) ==
    LET link_el == CssFirst(card, "a[href*='/notices/']")
        link == IF Found(link_el) THEN AttrGet(link_el, "href") ELSE PyNone
    IN  IF Truthy(link) /\ ~StartsWith(link.s, <<"h","t","t","p">>) THEN StrConcat(PyStr(BASE), link)
        ELSE link

\* time.attributes.get("datetime") if time else txt(...)
CardTime(card, selTime, selText) ==
    IF Found(CssFirst(card, selTime))
    THEN AttrGet(CssFirst(card, selTime), "datetime")
    ELSE CardTxt(card, selText)

CardCpv(card) ==
    LET tags == Css(card, ".notice-cpv .tag, [data-test='cpv'] .tag, .cpv .tag")
    IN  PyList([i \in 1..Len(tags) |-> NodeText(tags[i])])

\* s.rsplit("/", 1)[-1]
RSplitLast(s) ==
    LET slashes == {i \in 1..Len(s) : s[i] = "/"}
    IN  IF slashes = {} THEN s ELSE SubSeq(s, Max(slashes) + 1, Len(s))

\* x or None
OrNone(v) == PyOr(v, PyNone)

Summary(card) ==
    PyDict([k \in {kNoticeId, kTitle, kBuyer, kPublishedAt, kDeadlineAt, kCpv, kLink} |->
        CASE k = kNoticeId -> PyStr(RSplitLast(CardLink(card).s))
          [] k = kTitle -> CardTitle(card)
          [] k = kBuyer -> OrNone(CardTxt(card,
                ".notice-buyer, [data-test='buyer'], dt:contains('Oppdragsgiver') + dd"))
          [] k = kPublishedAt -> OrNone(CardTime(card, "time[datetime][data-test='published']",
                ".notice-published, [data-test='published']"))
          [] k = kDeadlineAt -> OrNone(CardTime(card, "time[datetime][data-test='deadline']",
                ".notice-deadline, [data-test='deadline']"))
          [] k = kCpv -> CardCpv(card)
          [] k = kLink -> CardLink(card)])

\* Included with the link alone, whatever the title.
IncludedByLink(card) == Truthy(CardLink(card))

\* if link and title
Included(card) == Truthy(CardLink(card)) /\ Truthy(CardTitle(card))

\* The loop with `not link.startswith("http")` left unguarded: a card without
\* a notices link ends parse_search with an AttributeError.
ParseCardsUnguarded(cards) ==
    IF \E i \in 1..Len(cards) : ~Found(CssFirst(cards[i], "a[href*='/notices/']"))
    THEN <<[type |-> "raise", exc |-> "AttributeError"]>>
    ELSE [i \in 1..Len(SelectSeq(cards, Included)) |->
             Summary(SelectSeq(cards, Included)[i])]

\* The loop with each summary put in front of the list: the last card first.
RECURSIVE ParseCardsLastFirst(_)
ParseCardsLastFirst(cards) ==
    IF cards = <<>> THEN <<>>
    ELSE ParseCardsLastFirst(Tail(cards))
         \o (IF Included(Head(cards)) THEN <<Summary(Head(cards))>> ELSE <<>>)

\* The loop over the cards, in document order.
RECURSIVE ParseCards(_)
ParseCards(cards) ==
    IF cards = <<>> THEN <<>>
    ELSE (IF Included(Head(cards)) THEN <<Summary(Head(cards))>> ELSE <<>>)
         \o ParseCards(Tail(cards))

\* The cards of an input whose card elements have no end tag: a card stays
\* open to the end of the input, so the cards after it are parsed inside it
\* and their elements are among its descendants.
RECURSIVE Nested(_)
Nested(cards) ==
    IF cards = <<>> THEN <<>> ELSE <<Join(cards)>> \o Nested(Tail(cards))

\* tree.css(".notice-card, .search-result, [data-test='notice-card']"): the
\* cards the parser's tree holds, in document order, each with its descendants.
MatchedCards(html) == IF html.unclosed THEN Nested(html.cards) ELSE html.cards

parse_search(html) == ParseCards(MatchedCards(html))

----------------------------------------------------------------------------
(* SearchSpec: parse_search applied to every search page of the bounds *)

MaxCards == 2
MaxCardEls == 3
\* Elements of one page, over all its cards.
MaxSearchEls == 3

\* Elements a card is drawn from, in document order.
CardTemplate == <<
    Node("div", {"notice-title"}, "", NoAttrs, <<" ">>),
    Node("h3", {"notice-title"}, "", NoAttrs, <<"T","i","t","l","e">>),
    Node("h2", {}, "", NoAttrs, <<"H","e","a","d">>),
    Node("a", {}, "", Href(<<"/","o","t","h","e","r">>), <<"O","t","h","e","r">>),
    Node("a", {}, "", Href(<<"/","n","o","t","i","c","e","s","/","2">>), <<" ">>),
    Node("a", {}, "", Href(<<"/","n","o","t","i","c","e","s","/","1">>), <<"V","i","e","w">>),
    Node("a", {}, "", Href(<<"h","t","t","p","s",":","/","/","d","o","f","f","i","n",".","n","o","/","n","o","t","i","c","e","s","/","3">>), <<"A","b","s">>),
    Node("a", {}, "", Href(<<"h","t","t","p",":","/","/","x",".","n","o","/","n","o","t","i","c","e","s","/","4">>), <<"E","x","t">>),
    Node("time", {}, "published", Datetime(PyStr(<<"2","0","2","4">>)), <<"P">>),
    Node("span", {"notice-deadline"}, "", NoAttrs, <<"E">>),
    Node("time", {}, "deadline", Datetime(PyStr(<<>>)), <<"D">>)
>>

\* The positions of CardTemplate one card is made of.
Cards == Picks(Len(CardTemplate), MaxCardEls)

RECURSIVE ElsOf(_)
\* The number of elements the cards cs hold together.
ElsOf(cs) == IF cs = <<>> THEN 0 ELSE Cardinality(Head(cs)) + ElsOf(Tail(cs))

RECURSIVE CardSeqs(_, _)
\* The sequences of n cards that hold at most m elements together.
CardSeqs(n, m) ==
    IF n = 0 THEN {<<>>}
    ELSE {<<p[1]>> \o p[2] :
            p \in {p \in Cards \X CardSeqs(n - 1, m) : Cardinality(p[1]) + ElsOf(p[2]) <= m}}

SearchPage(cs, unclosed) ==
    [blocks |-> <<>>, els |-> <<>>,
     cards |-> [i \in 1..Len(cs) |-> Sub(CardTemplate, cs[i])],
     body |-> TRUE, in_head |-> TRUE, pad |-> 0, unclosed |-> unclosed]

SearchInit ==
    /\ s_pc = "call"
    /\ \E n \in 0..MaxCards :
         \E cs \in CardSeqs(n, MaxSearchEls), unclosed \in BOOLEAN :
            s_html = SearchPage(cs, unclosed)
    /\ s_items = <<>>
    /\ FetchOff /\ NoticeOff /\ UrlOff /\ ExamplesOff

ParseSearchCall ==
    /\ s_pc = "call"
    /\ s_items' = parse_search(s_html)
    /\ s_pc' = "done"
    /\ UNCHANGED <<s_html, fetchVars, noticeVars, urlVars, exampleVars>>

SearchNext == ParseSearchCall

SearchSpec == SearchInit /\ [][SearchNext]_vars

----------------------------------------------------------------------------
(* fetch and the get_notice tool (FetchSpec).  One attempt of fetch is one  *)
(* step: the GET, raise_for_status, and tenacity's decision to return, to   *)
(* sleep and retry, or to give up.                                          *)

MaxCalls == 2

MaxAttemptNumber == 3

\* wait_exponential's min and max, in tenths of a second
WaitMin == 8
WaitMax == 20

Statuses == {101, 200, 204, 301, 404, 500}

TransportErrors == {"ConnectError", "ReadTimeout"}

\* The pages the server answers with.
FetchPages == {
    EmptyPage,
    [EmptyPage EXCEPT !.els = <<Node("h1", {}, "", NoAttrs, <<"T">>)>>,
                      !.blocks = <<<<"{","\"","t","i","t","l","e","\"",":","\"","J","\"","}">>>>, !.in_head = FALSE],
    [EmptyPage EXCEPT !.blocks = <<<<"{","\"","s","o","u","r","c","e","_","u","r","l","\"",":","\"","e","\"","}">>>>]
}

\* What one attempt meets: a response, or an error of the transport.
Outcomes ==
    {[kind |-> "response", status |-> s, text |-> p] : s \in Statuses, p \in FetchPages}
    \cup {[kind |-> "error", exc |-> e] : e \in TransportErrors}

NoticeIds == {PyNone, PyStr(<<>>), PyStr(<<"1","2","3","4","5">>)}

ToolUrls == {PyNone, PyStr(<<>>), PyStr(BASE \o <<"/","n","o","t","i","c","e","s","/","9">>)}

\* raise_for_status() with the behaviour of httpx before 0.20: only 4xx and 5xx raise.
RaisesForStatusLegacy(status) == status >= 400

\* r.raise_for_status(): raises unless the response is a success (2xx)
RaisesForStatus(status) == ~(status >= 200 /\ status <= 299)

\* The exception an attempt ends with.
Failure(o) ==
    IF o.kind = "response" THEN [exc |-> "HTTPStatusError", status |-> o.status]
    ELSE [exc |-> o.exc, status |-> 0]

\* The attempt without raise_for_status(): only an error of the transport raises.
AttemptFailsOnTransportOnly(o) == o.kind = "error"

\* Whether the attempt raises: an error of the transport, or raise_for_status.
AttemptFails(o) == o.kind = "error" \/ RaisesForStatus(o.status)

\* stop_after_attempt off by one.
StopAfterAttemptLate(n) == n > MaxAttemptNumber

\* stop_after_attempt(3)
StopAfterAttempt(n) == n >= MaxAttemptNumber

\* The guard with `is None` in place of truth value testing.
NoArgumentIsNone(nid, u) == nid = PyNone /\ u = PyNone

\* not notice_id and not url
NoArgument(nid, u) == ~Truthy(nid) /\ ~Truthy(u)

\* url or f"{BASE}/notices/{notice_id}"
TargetUrl(nid, u) == PyOr(u, PyStr(BASE \o <<"/","n","o","t","i","c","e","s","/">> \o nid.s))

Nothing == [kind |-> "none"]

FetchInit ==
    /\ pc = "idle" /\ notice_id = PyNone /\ url = PyNone /\ target_url = PyNone
    /\ attempt_number = 0 /\ delays = <<>> /\ requests = <<>> /\ outcomes = <<>>
    /\ fetched = Nothing /\ ret = Nothing /\ calls = 0
    /\ NoticeOff /\ SearchOff /\ UrlOff /\ ExamplesOff

\* get_notice(notice_id, url) up to its first await.
GetNotice(nid, u) ==
    /\ pc = "idle"
    /\ calls < MaxCalls
    /\ notice_id' = nid
    /\ url' = u
    /\ IF NoArgument(nid, u)
       THEN /\ ret' = [kind |-> "raise", exc |-> "ValueError"]
            /\ pc' = "done"
            /\ UNCHANGED <<target_url, attempt_number>>
       ELSE /\ target_url' = TargetUrl(nid, u)
            /\ attempt_number' = 1
            /\ pc' = "attempt"
            /\ UNCHANGED ret
    /\ UNCHANGED <<delays, requests, outcomes, fetched, calls, noticeVars, searchVars,
                   urlVars, exampleVars>>

\* One attempt of fetch: client.get(url), raise_for_status(), return r.text;
\* on an exception tenacity stops after the third attempt with RetryError,
\* which leaves get_notice too, and sleeps before another attempt otherwise.
Attempt(o) ==
    /\ pc = "attempt"
    /\ requests' = Append(requests, target_url)
    /\ outcomes' = Append(outcomes, o)
    /\ IF ~AttemptFails(o)
       THEN /\ fetched' = [kind |-> "return", text |-> o.text]
            /\ pc' = "parse"
            /\ UNCHANGED ret
       ELSE IF StopAfterAttempt(attempt_number)
       THEN /\ fetched' = [kind |-> "raise", exc |-> "RetryError",
                           last_attempt |-> Failure(o)]
            /\ ret' = [kind |-> "raise", exc |-> "RetryError",
                       last_attempt |-> Failure(o)]
            /\ pc' = "done"
       ELSE /\ pc' = "sleep"
            /\ UNCHANGED <<fetched, ret>>
    /\ UNCHANGED <<notice_id, url, target_url, attempt_number, delays, calls,
                   noticeVars, searchVars, urlVars, exampleVars>>

\* An exponential wait without the max clamp, the exponent being the attempt
\* number: 2 ** n seconds.
WaitExponentialUncapped(n) == Max({Max({0, WaitMin}), 10 * 2 ^ n})

\* wait_exponential(min=0.8, max=2), in tenths of a second, after attempt n:
\* max(max(0, min), min(multiplier * 2 ** (n - 1), max)), multiplier 1
WaitExponential(n) == Max({Max({0, WaitMin}), Min({10 * 2 ^ (n - 1), WaitMax})})

\* The wait between two attempts: tenacity sleeps wait(retry_state), then
\* starts the next attempt.
Backoff ==
    /\ pc = "sleep"
    /\ delays' = Append(delays, WaitExponential(attempt_number))
    /\ attempt_number' = attempt_number + 1
    /\ pc' = "attempt"
    /\ UNCHANGED <<notice_id, url, target_url, requests, outcomes, fetched, ret, calls,
                   noticeVars, searchVars, urlVars, exampleVars>>

\* get_notice: return parse_notice(html, target_url); search_notices, the
\* invocation that built its URL from arguments:
\* return {"results": parse_search(html), "source_url": url}
ParseFetched ==
    /\ pc = "parse"
    /\ ret' = [kind |-> "return",
               value |-> IF u_pc = "done"
                         THEN [results |-> parse_search(fetched.text),
                               source_url |-> target_url.s]
                         ELSE parse_notice(fetched.text, target_url.s)]
    /\ pc' = "done"
    /\ UNCHANGED <<notice_id, url, target_url, attempt_number, delays, requests,
                   outcomes, fetched, calls, noticeVars, searchVars, urlVars, exampleVars>>

\* The invocation is over: nothing of it is kept.
Finish ==
    /\ pc = "done"
    /\ calls' = calls + 1
    /\ pc' = "idle" /\ notice_id' = PyNone /\ url' = PyNone /\ target_url' = PyNone
    /\ attempt_number' = 0 /\ delays' = <<>> /\ requests' = <<>> /\ outcomes' = <<>>
    /\ fetched' = Nothing /\ ret' = Nothing
    /\ u_pc' = "off" /\ u_p' = <<>> /\ u_out' = Nothing
    /\ UNCHANGED <<noticeVars, searchVars, exampleVars>>

FetchNext ==
    \/ \E nid \in NoticeIds, u \in ToolUrls : GetNotice(nid, u)
    \/ \E o \in Outcomes : Attempt(o)
    \/ Backoff
    \/ ParseFetched
    \/ Finish

FetchSpec == FetchInit /\ [][FetchNext]_vars

----------------------------------------------------------------------------
(* CancelSpec: FetchSpec with the caller cancelling the invocation while it *)
(* is suspended in fetch: asyncio raises CancelledError at the await the    *)
(* task is suspended on, client.get(url) or tenacity's sleep.               *)

\* The retry predicate taken to hold of every BaseException.
RetriesOnBaseException(exc) == TRUE

\* tenacity's default retry predicate, retry_if_exception_type(Exception):
\* CancelledError derives from BaseException, not from Exception.
RetriesOn(exc) == exc # "CancelledError"

CancelledOutcome == [kind |-> "error", exc |-> "CancelledError"]

CancelledError == [kind |-> "raise", exc |-> "CancelledError"]

\* The invocation is cancelled.  In an attempt the request is in flight:
\* tenacity catches the CancelledError of the attempt, its retry predicate
\* rejects it and the error is raised again.  In the wait the CancelledError
\* leaves tenacity's sleep, which no handler encloses.
Cancel ==
    /\ pc \in {"attempt", "sleep"}
    /\ IF pc = "attempt"
       THEN /\ requests' = Append(requests, target_url)
            /\ outcomes' = Append(outcomes, CancelledOutcome)
            /\ IF ~RetriesOn(CancelledOutcome.exc)
               THEN fetched' = CancelledError /\ ret' = CancelledError /\ pc' = "done"
               ELSE IF StopAfterAttempt(attempt_number)
               THEN /\ fetched' = [kind |-> "raise", exc |-> "RetryError",
                                   last_attempt |-> Failure(CancelledOutcome)]
                    /\ ret' = [kind |-> "raise", exc |-> "RetryError",
                               last_attempt |-> Failure(CancelledOutcome)]
                    /\ pc' = "done"
               ELSE pc' = "sleep" /\ UNCHANGED <<fetched, ret>>
       ELSE /\ fetched' = CancelledError /\ ret' = CancelledError /\ pc' = "done"
            /\ UNCHANGED <<requests, outcomes>>
    /\ UNCHANGED <<notice_id, url, target_url, attempt_number, delays, calls,
                   noticeVars, searchVars, urlVars, exampleVars>>

CancelNext == FetchNext \/ Cancel

CancelSpec == FetchInit /\ [][CancelNext]_vars

-----------------------------------------------------------------------------
(* build_search_url (mcp_doffin.py 24-45) *)

\* The parameters in the order build_search_url reads them.
ParamKeys ==
    <<"q", "cpv", "buyer", "published_from", "published_to", "deadline_to",
      "county", "procedure", "page">>

\* The query key each parameter is stored under in qs.
QueryKey(k) ==
    CASE k = "q" -> <<"q","u","e","r","y">>
      [] k = "cpv" -> <<"c","p","v","C","o","d","e","s","L","a","b","e","l">>
      [] k = "buyer" -> <<"b","u","y","e","r">>
      [] k = "published_from" -> <<"p","u","b","l","i","s","h","e","d","F","r","o","m">>
      [] k = "published_to" -> <<"p","u","b","l","i","s","h","e","d","T","o">>
      [] k = "deadline_to" -> <<"d","e","a","d","l","i","n","e","T","o">>
      [] k = "county" -> <<"c","o","u","n","t","y">>
      [] k = "procedure" -> <<"p","r","o","c","e","d","u","r","e">>
      [] k = "page" -> <<"p","a","g","e">>

\* sep.join(parts) on sequences of characters.
RECURSIVE StrJoin(_, _)
StrJoin(sep, parts) ==
    IF parts = <<>> THEN <<>>
    ELSE IF Len(parts) = 1 THEN parts[1]
    ELSE parts[1] \o sep \o StrJoin(sep, Tail(parts))

AllStr(items) == \A i \in 1..Len(items) : items[i].type = "str"

\* Line 30 with the codes kept as the list they came in: urlencode(doseq=True)
\* then repeats the key once per code.
JoinCodesKeepList(v) ==
    IF v.type = "list" /\ AllStr(v.items) THEN [ok |-> TRUE, v |-> v]
    ELSE IF v.type = "str" THEN [ok |-> TRUE, v |-> v]
    ELSE [ok |-> FALSE]

\* ",".join(p["cpv"]) (line 30): a list of str is joined, a str is iterated
\* character by character, anything else raises TypeError.
JoinCodes(v) ==
    IF v.type = "list" /\ AllStr(v.items)
    THEN [ok |-> TRUE,
          v |-> PyStr(StrJoin(<<",">>, [i \in 1..Len(v.items) |-> v.items[i].s]))]
    ELSE IF v.type = "str"
    THEN [ok |-> TRUE,
          v |-> PyStr(StrJoin(<<",">>, [i \in 1..Len(v.s) |-> <<v.s[i]>>]))]
    ELSE [ok |-> FALSE]

\* Line 43 with the comparison page >= 1.
PageOverOneInclusive(v) ==
    IF v.type = "num" THEN [ok |-> TRUE, b |-> v.n >= 1]
    ELSE IF v.type = "bool" THEN [ok |-> TRUE, b |-> v.b]
    ELSE [ok |-> FALSE]

\* page > 1 (line 43) for a truthy page: numbers compare, True is 1, a str
\* or a list against an int raises TypeError.
PageOverOne(v) ==
    IF v.type = "num" THEN [ok |-> TRUE, b |-> v.n > 1]
    ELSE IF v.type = "bool" THEN [ok |-> TRUE, b |-> FALSE]
    ELSE [ok |-> FALSE]

\* Lines 27-42 with the test "p.get(k) is not None" instead of truthiness.
FieldEntryIfNotNone(p, k) ==
    IF DictGet(p, k) = PyNone THEN <<>>
    ELSE <<[k |-> QueryKey(k),
            v |-> IF k = "cpv" THEN JoinCodes(p[k]).v ELSE p[k]]>>

\* One of the eight "if p.get(k): qs[key] = ..." statements (lines 27-42):
\* no entry for a falsy value, one entry otherwise.
FieldEntry(p, k) ==
    IF ~Truthy(DictGet(p, k)) THEN <<>>
    ELSE <<[k |-> QueryKey(k),
            v |-> IF k = "cpv" THEN JoinCodes(p[k]).v ELSE p[k]]>>

\* Lines 43-44.
PageEntry(p) ==
    IF Truthy(DictGet(p, "page")) /\ PageOverOne(p["page"]).b
    THEN <<[k |-> QueryKey("page"), v |-> p["page"]]>>
    ELSE <<>>

\* qs in insertion order once line 44 is passed.
QueryDict(p) ==
    Join([i \in 1..8 |-> FieldEntry(p, ParamKeys[i])]) \o PageEntry(p)

\* The statements of build_search_url that raise.
RaisesTypeError(p) ==
    \/ Truthy(DictGet(p, "cpv")) /\ ~JoinCodes(p["cpv"]).ok
    \/ Truthy(DictGet(p, "page")) /\ ~PageOverOne(p["page"]).ok

DigitChars == <<"0","1","2","3","4","5","6","7","8","9">>

RECURSIVE Digits(_)
Digits(n) ==
    IF n < 10 THEN <<DigitChars[n + 1]>>
    ELSE Digits(n \div 10) \o <<DigitChars[(n % 10) + 1]>>

\* str(v), as urlencode applies it to a value that is not str or bytes.
StrOf(v) ==
    CASE v.type = "str" -> v.s
      [] v.type = "num" -> IF v.n < 0 THEN <<"-">> \o Digits(0 - v.n) ELSE Digits(v.n)
      [] v.type = "bool" -> IF v.b THEN <<"T","r","u","e">> ELSE <<"F","a","l","s","e">>
      [] OTHER -> <<"N","o","n","e">>

\* urllib.parse.quote_plus on one character: letters, digits and _.-~ are
\* kept, a space becomes +, the rest is percent-encoded.
QuoteChar(c) ==
    CASE c = " " -> <<"+">>
      [] c = "," -> <<"%","2","C">>
      [] c = "&" -> <<"%","2","6">>
      [] c = "=" -> <<"%","3","D">>
      [] c = "/" -> <<"%","2","F">>
      [] c = ":" -> <<"%","3","A">>
      [] c = "+" -> <<"%","2","B">>
      [] c = "%" -> <<"%","2","5">>
      [] OTHER -> <<c>>

quote_plus(s) == Join([i \in 1..Len(s) |-> QuoteChar(s[i])])

\* The key=value pairs urlencode(doseq=True) writes for one entry of qs: one
\* for a str or a scalar, one per element for a list.
EncodedPairs(e) ==
    IF e.v.type = "list"
    THEN [i \in 1..Len(e.v.items) |->
             quote_plus(e.k) \o <<"=">> \o quote_plus(StrOf(e.v.items[i]))]
    ELSE <<quote_plus(e.k) \o <<"=">> \o quote_plus(StrOf(e.v))>>

urlencode(qs) ==
    StrJoin(<<"&">>, Join([i \in 1..Len(qs) |-> EncodedPairs(qs[i])]))

SearchPath == <<"/","s","e","a","r","c","h","?">>

build_search_url(p) ==
    IF RaisesTypeError(p) THEN [kind |-> "raise", exc |-> "TypeError"]
    ELSE [kind |-> "return", url |-> BASE \o SearchPath \o urlencode(QueryDict(p))]

\* Inputs: at most MaxParams of the nine parameters are given at once.
MaxParams == 3

TextPool(s) == <<PyNone, PyStr(<<>>), PyStr(s)>>

\* The values tried for each parameter; the last values of cpv and page lie
\* outside the types search_notices declares (lines 139-146).
ParamPool(k) ==
    CASE k = "q" -> TextPool(<<"a"," ","b">>)
      [] k = "cpv" ->
            <<PyNone, PyList(<<>>), PyList(<<PyStr(<<"7","2">>)>>),
              PyList(<<PyStr(<<"7","2">>), PyStr(<<"4","8">>)>>),
              PyStr(<<"7","2">>), PyList(<<PyNum(72)>>), PyNum(72)>>
      [] k = "buyer" -> TextPool(<<"K","&","L">>)
      [] k = "published_from" -> TextPool(<<"2","0","2","4","-","0","1">>)
      [] k = "published_to" -> TextPool(<<"2","0","2","4","-","1","2">>)
      [] k = "deadline_to" -> TextPool(<<"2","0","2","5">>)
      [] k = "county" -> TextPool(<<"O","=","1">>)
      [] k = "procedure" -> TextPool(<<"o","p","e","n">>)
      [] k = "page" ->
            <<PyNone, PyNum(0), PyNum(1), PyNum(2), PyNum(12), PyBool(TRUE),
              PyStr(<<"2">>)>>

ParamNames == {ParamKeys[i] : i \in 1..Len(ParamKeys)}

PoolIndex == 1..Max({Len(ParamPool(k)) : k \in ParamNames})

UrlInit ==
    /\ FetchOff
    /\ NoticeOff
    /\ SearchOff
    /\ ExamplesOff
    /\ u_pc = "call"
    /\ u_out = [kind |-> "none"]
    /\ \E K \in SUBSET ParamNames :
          /\ Cardinality(K) <= MaxParams
          /\ \E f \in [K -> PoolIndex] :
                /\ \A k \in K : f[k] <= Len(ParamPool(k))
                /\ u_p = [k \in K |-> ParamPool(k)[f[k]]]

BuildSearchUrlCall ==
    /\ u_pc = "call"
    /\ u_out' = build_search_url(u_p)
    /\ u_pc' = "done"
    /\ UNCHANGED <<u_p, fetchVars, noticeVars, searchVars, exampleVars>>

UrlNext == BuildSearchUrlCall

UrlSpec == UrlInit /\ [][UrlNext]_vars

-----------------------------------------------------------------------------
(* ToolSpec: FetchSpec with the search_notices tool beside get_notice *)

\* The args dict of search_notices (lines 148-158): all nine keys, the ones
\* not given holding their defaults.
SearchArgs ==
    {[k \in ParamNames |->
         IF k = "q" THEN q ELSE IF k = "page" THEN page ELSE PyNone] :
       q \in {PyNone, PyStr(<<"a">>)},
       page \in {PyNum(1), PyNum(2), PyStr(<<"2">>)}}

\* search_notices up to its first await: url = build_search_url(args), whose
\* TypeError leaves the tool, then fetch(url).
SearchNotices(p) ==
    /\ pc = "idle"
    /\ calls < MaxCalls
    /\ u_p' = p
    /\ u_out' = build_search_url(p)
    /\ u_pc' = "done"
    /\ IF build_search_url(p).kind = "raise"
       THEN /\ ret' = build_search_url(p)
            /\ pc' = "done"
            /\ UNCHANGED <<target_url, attempt_number>>
       ELSE /\ target_url' = PyStr(build_search_url(p).url)
            /\ attempt_number' = 1
            /\ pc' = "attempt"
            /\ UNCHANGED ret
    /\ UNCHANGED <<notice_id, url, delays, requests, outcomes, fetched, calls,
                   noticeVars, searchVars, exampleVars>>

ToolNext == FetchNext \/ \E p \in SearchArgs : SearchNotices(p)

ToolSpec == FetchInit /\ [][ToolNext]_vars

-----------------------------------------------------------------------------
(* ConcSpec: several calls of fetch in progress at once on one event loop,  *)
(* interleaved at their awaits (the GET of an attempt, tenacity's sleep).   *)
(* The state of a call is what lines 16-21 give it: tenacity's retry state  *)
(* of this call and the client of this attempt; the module holds nothing    *)
(* a call could write.                                                      *)

MaxFetches == 2

\* What an attempt of these calls meets.
ConcOutcomes ==
    {[kind |-> "response", status |-> 200, text |-> EmptyPage],
     [kind |-> "response", status |-> 500, text |-> EmptyPage],
     [kind |-> "error", exc |-> "ConnectError"]}

\* A call that has not started.
NoFetch == [pc |-> "idle", attempt_number |-> 0, outcomes |-> <<>>, result |-> Nothing]

\* One attempt counter shared by the calls in progress, as if the retry state
\* belonged to the decorated function.
SharedAttemptNumber(fs, i) == Max({fs[j].attempt_number : j \in DOMAIN fs})

\* retry_state.attempt_number of call i: tenacity makes a RetryCallState for
\* each call of the decorated function.
AttemptNumberOf(fs, i) == fs[i].attempt_number

ConcInit ==
    /\ fetches = [i \in 1..MaxFetches |-> NoFetch]
    /\ FetchOff /\ NoticeOff /\ SearchOff /\ UrlOff /\ ClientOff /\ PoolOff

\* fetch(url) is called: a call that has ended leaves nothing behind, so its
\* place is taken by the next call.
StartFetch(i) ==
    /\ fetches[i].pc \in {"idle", "done"}
    /\ fetches' = [fetches EXCEPT ![i] = [NoFetch EXCEPT !.pc = "attempt",
                                                         !.attempt_number = 1]]
    /\ UNCHANGED <<coreVars, clientVars, poolVars>>

\* One attempt of call i, as in Attempt.
FetchAttempt(i, o) ==
    /\ fetches[i].pc = "attempt"
    /\ fetches' =
          [fetches EXCEPT ![i] =
              [@ EXCEPT
                 !.outcomes = Append(@, o),
                 !.pc = IF ~AttemptFails(o) THEN "done"
                        ELSE IF StopAfterAttempt(AttemptNumberOf(fetches, i)) THEN "done"
                        ELSE "sleep",
                 !.result = IF ~AttemptFails(o) THEN [kind |-> "return", text |-> o.text]
                            ELSE IF StopAfterAttempt(AttemptNumberOf(fetches, i))
                            THEN [kind |-> "raise", exc |-> "RetryError",
                                  last_attempt |-> Failure(o)]
                            ELSE Nothing]]
    /\ UNCHANGED <<coreVars, clientVars, poolVars>>

\* The wait of call i is over, as in Backoff.
FetchBackoff(i) ==
    /\ fetches[i].pc = "sleep"
    /\ fetches' = [fetches EXCEPT ![i].attempt_number = @ + 1, ![i].pc = "attempt"]
    /\ UNCHANGED <<coreVars, clientVars, poolVars>>

ConcNext ==
    \E i \in 1..MaxFetches :
        \/ StartFetch(i)
        \/ \E o \in ConcOutcomes : FetchAttempt(i, o)
        \/ FetchBackoff(i)

ConcSpec == ConcInit /\ [][ConcNext]_vars

-----------------------------------------------------------------------------
(* RobustMCPClient (examples/robust-client.py 81-410): call_tool invocations *)
(* on one client, alone or started by batch_call_tools.  A step runs a call  *)
(* from one await to the next; the waits before a retry change nothing and   *)
(* are part of the step before them.                                         *)

MaxBatch == 2

\* RetryConfig.max_attempts
max_attempts == 3

\* What client.call_tool meets under wait_for.
ToolOutcomes == {"ok", "TimeoutError", "MCPConnectionError", "Exception"}

\* A call_tool invocation not yet started: whether its request passes
\* _validate_tool_request, and its retry_on_failure.
NewCall(valid, retry) ==
    [valid |-> valid, retry |-> retry, pc |-> "idle", attempt |-> 0,
     connection_attempt |-> 0, reconnecting |-> FALSE, result |-> Nothing]

Raised(exc) == [kind |-> "raise", exc |-> exc]

ClientInit ==
    /\ state = "disconnected"
    /\ total_requests = 0 /\ successful_requests = 0 /\ failed_requests = 0
    /\ \E n \in 1..MaxBatch :
          /\ batch \in {"none", "gather", "fail_fast"}
          /\ max_concurrent \in 1..n
          /\ \E v \in [1..n -> BOOLEAN], r \in [1..n -> BOOLEAN] :
                /\ batch # "none" => \A i \in 1..n : r[i]
                /\ batch = "none" => max_concurrent = n
                /\ tool_calls = [i \in 1..n |-> NewCall(v[i], r[i])]
    /\ completed = <<>>
    /\ results = Nothing
    /\ FetchOff /\ NoticeOff /\ SearchOff /\ UrlOff /\ ConcOff /\ PoolOff

\* The calls between their start and their end.
Running == {i \in DOMAIN tool_calls : tool_calls[i].pc \notin {"idle", "done"}}

\* call_tool up to its first await (lines 207-221): the request is counted,
\* validated, and the connection ensured; under batch_call_tools the call
\* first takes the semaphore.
StartCall(i) ==
    /\ tool_calls[i].pc = "idle"
    /\ Cardinality(Running) < max_concurrent
    /\ total_requests' = total_requests + 1
    /\ UNCHANGED <<successful_requests, batch, max_concurrent, results>>
    /\ IF ~tool_calls[i].valid
       THEN /\ tool_calls' = [tool_calls EXCEPT ![i].pc = "done",
                                               ![i].result = Raised("MCPValidationError")]
            /\ completed' = Append(completed, i)
            /\ UNCHANGED <<state, failed_requests>>
       ELSE IF state = "connected"
       THEN /\ tool_calls' = [tool_calls EXCEPT ![i].pc = "attempt"]
            /\ UNCHANGED <<state, failed_requests, completed>>
       ELSE IF tool_calls[i].retry
       THEN /\ tool_calls' = [tool_calls EXCEPT ![i].pc = "connect"]
            /\ state' = "connecting"
            /\ UNCHANGED <<failed_requests, completed>>
       ELSE /\ tool_calls' = [tool_calls EXCEPT ![i].pc = "done",
                                               ![i].result = Raised("MCPConnectionError")]
            /\ failed_requests' = failed_requests + 1
            /\ completed' = Append(completed, i)
            /\ UNCHANGED state
    /\ UNCHANGED <<coreVars, concVars, poolVars>>

\* One pass of connect's loop (lines 140-163) for call i: connected, or
\* another pass, or FAILED after max_attempts passes, and then call_tool
\* counts the request as failed and raises (lines 213-215, 247-248).
ConnectStep(i, ok) ==
    /\ tool_calls[i].pc = "connect"
    /\ UNCHANGED <<total_requests, successful_requests, batch, max_concurrent, results>>
    /\ IF ok
       THEN /\ state' = "connected"
            /\ tool_calls' =
                  [tool_calls EXCEPT
                     ![i].pc = "attempt",
                     ![i].connection_attempt = 0,
                     ![i].reconnecting = FALSE,
                     ![i].attempt = IF tool_calls[i].reconnecting THEN @ + 1 ELSE @]
            /\ UNCHANGED <<failed_requests, completed>>
       ELSE IF tool_calls[i].connection_attempt < max_attempts - 1
       THEN /\ tool_calls' = [tool_calls EXCEPT ![i].connection_attempt = @ + 1]
            /\ UNCHANGED <<state, failed_requests, completed>>
       ELSE /\ state' = "failed"
            /\ tool_calls' = [tool_calls EXCEPT ![i].pc = "done",
                                               ![i].result = Raised("MCPConnectionError")]
            /\ failed_requests' = failed_requests + 1
            /\ completed' = Append(completed, i)
    /\ UNCHANGED <<coreVars, concVars, poolVars>>

\* One pass of call_tool's loop (lines 218-261) for call i.
AttemptStep(i, o) ==
    /\ tool_calls[i].pc = "attempt"
    /\ UNCHANGED <<total_requests, batch, max_concurrent, results>>
    /\ IF o = "ok"
       THEN /\ successful_requests' = successful_requests + 1
            /\ tool_calls' = [tool_calls EXCEPT ![i].pc = "done",
                                               ![i].result = [kind |-> "return", call |-> i]]
            /\ completed' = Append(completed, i)
            /\ UNCHANGED <<state, failed_requests>>
       ELSE IF o = "MCPConnectionError" /\ tool_calls[i].retry
                                        /\ tool_calls[i].attempt < max_attempts - 1
       THEN /\ state' = "connecting"
            /\ tool_calls' = [tool_calls EXCEPT ![i].pc = "connect",
                                               ![i].reconnecting = TRUE]
            /\ UNCHANGED <<successful_requests, failed_requests, completed>>
       ELSE IF o = "MCPConnectionError" \/ tool_calls[i].attempt = max_attempts - 1
       THEN /\ state' = IF o = "MCPConnectionError" THEN "disconnected" ELSE state
            /\ tool_calls' =
                  [tool_calls EXCEPT
                     ![i].pc = "done",
                     ![i].result = Raised(IF o = "TimeoutError" THEN "MCPTimeoutError" ELSE o)]
            /\ failed_requests' = failed_requests + 1
            /\ completed' = Append(completed, i)
            /\ UNCHANGED successful_requests
       ELSE /\ tool_calls' = [tool_calls EXCEPT ![i].attempt = @ + 1]
            /\ UNCHANGED <<state, successful_requests, failed_requests, completed>>
    /\ UNCHANGED <<coreVars, concVars, poolVars>>

\* What call_single_tool returns for call i (lines 287-298): the result, or
\* a dict with success False.
SingleResult(i) ==
    IF tool_calls[i].result.kind = "return" THEN [success |-> TRUE, call |-> i]
    ELSE [success |-> FALSE, error |-> tool_calls[i].result.exc, tool |-> i]

\* The list the fail_fast branch builds (lines 305-315): one append for each
\* task as_completed yields, in the order the tasks complete.
AsCompleted(order) == [k \in 1..Len(order) |-> SingleResult(order[k])]

\* batch_call_tools returns: gather's list is in the order of the tasks
\* (line 318); the fail_fast branch returns its list when no result failed.
BatchReturn ==
    /\ batch \in {"gather", "fail_fast"}
    /\ results = Nothing
    /\ \A i \in DOMAIN tool_calls : tool_calls[i].pc = "done"
    /\ batch = "fail_fast" => \A i \in DOMAIN tool_calls : SingleResult(i).success
    /\ results' = [kind |-> "return",
                   value |-> IF batch = "gather"
                             THEN [k \in DOMAIN tool_calls |-> SingleResult(k)]
                             ELSE AsCompleted(completed)]
    /\ UNCHANGED <<state, total_requests, successful_requests, failed_requests,
                   tool_calls, batch, max_concurrent, completed>>
    /\ UNCHANGED <<coreVars, concVars, poolVars>>

\* The fail_fast branch meets a failed result (lines 308-313): the loop over
\* the remaining tasks calls done() on a coroutine object, which raises
\* AttributeError out of the batch; the tasks still running are not awaited.
BatchRaise ==
    /\ batch = "fail_fast"
    /\ results = Nothing
    /\ \E k \in 1..Len(completed) : ~SingleResult(completed[k]).success
    /\ results' = Raised("AttributeError")
    /\ UNCHANGED <<state, total_requests, successful_requests, failed_requests,
                   tool_calls, batch, max_concurrent, completed>>
    /\ UNCHANGED <<coreVars, concVars, poolVars>>

ClientNext ==
    \/ \E i \in DOMAIN tool_calls : StartCall(i)
    \/ \E i \in DOMAIN tool_calls, ok \in BOOLEAN : ConnectStep(i, ok)
    \/ \E i \in DOMAIN tool_calls, o \in ToolOutcomes : AttemptStep(i, o)
    \/ BatchReturn
    \/ BatchRaise

ClientSpec == ClientInit /\ [][ClientNext]_vars

-----------------------------------------------------------------------------
(* ClientWithConnectionPool (examples/robust-client.py 412-502).  A step    *)
(* runs a task from one suspension to the next: the connect inside          *)
(* _create_client, the wait for the lock, the wait on the queue.  The queue *)
(* is unbounded, so put never suspends; disconnect of a client that is not  *)
(* connected returns without suspending.  Only the number of queued clients *)
(* matters to the pool: available_clients is that number.                   *)

MaxWorkers == 2
MaxConnections == 2

Workers == 1..MaxWorkers

\* Nobody holds the lock.
Unlocked == 0

PoolInit ==
    /\ max_connections \in 1..MaxConnections
    /\ min_connections \in 0..max_connections
    /\ available_clients = 0
    /\ total_clients = 0
    /\ lock = Unlocked
    /\ workers = [w \in Workers |-> "idle"]
    /\ to_initialize = min_connections
    /\ FetchOff /\ NoticeOff /\ SearchOff /\ UrlOff /\ ConcOff /\ ClientOff

\* One pass of initialize's loop (lines 433-435), from the end of the
\* connect it awaits: the client is counted and queued.
InitializeStep ==
    /\ to_initialize > 0
    /\ to_initialize' = to_initialize - 1
    /\ total_clients' = total_clients + 1
    /\ available_clients' = available_clients + 1
    /\ UNCHANGED <<lock, workers, min_connections, max_connections>>
    /\ UNCHANGED <<coreVars, concVars, clientVars>>

\* Inside the lock (lines 453-459): a new client while total_clients is
\* below max_connections, the wait on the queue otherwise.
UnderLock == IF total_clients < max_connections THEN "create" ELSE "get"

\* get_client up to its first suspension (lines 449-453): a queued client
\* is returned at once; with the queue empty the task takes the lock, or
\* waits for it.
GetClient(w) ==
    /\ workers[w] = "idle"
    /\ IF available_clients > 0
       THEN /\ available_clients' = available_clients - 1
            /\ workers' = [workers EXCEPT ![w] = "using"]
            /\ UNCHANGED lock
       ELSE IF lock = Unlocked
       THEN /\ lock' = w
            /\ workers' = [workers EXCEPT ![w] = UnderLock]
            /\ UNCHANGED available_clients
       ELSE /\ workers' = [workers EXCEPT ![w] = "lock"]
            /\ UNCHANGED <<lock, available_clients>>
    /\ UNCHANGED <<total_clients, to_initialize, min_connections, max_connections>>
    /\ UNCHANGED <<coreVars, concVars, clientVars>>

\* The lock is released and a waiting task gets it.
AcquireLock(w) ==
    /\ workers[w] = "lock"
    /\ lock = Unlocked
    /\ lock' = w
    /\ workers' = [workers EXCEPT ![w] = UnderLock]
    /\ UNCHANGED <<available_clients, total_clients, to_initialize, min_connections,
                   max_connections>>
    /\ UNCHANGED <<coreVars, concVars, clientVars>>

\* The connect of _create_client under the lock is over (lines 443-445,
\* 456): the client is counted and returned, the lock released.
FinishCreate(w) ==
    /\ workers[w] = "create"
    /\ total_clients' = total_clients + 1
    /\ lock' = Unlocked
    /\ workers' = [workers EXCEPT ![w] = "using"]
    /\ UNCHANGED <<available_clients, to_initialize, min_connections, max_connections>>
    /\ UNCHANGED <<coreVars, concVars, clientVars>>

\* available_clients.get() under the lock returns a client (line 459).
TakeFromQueue(w) ==
    /\ workers[w] = "get"
    /\ available_clients > 0
    /\ available_clients' = available_clients - 1
    /\ lock' = Unlocked
    /\ workers' = [workers EXCEPT ![w] = "using"]
    /\ UNCHANGED <<total_clients, to_initialize, min_connections, max_connections>>
    /\ UNCHANGED <<coreVars, concVars, clientVars>>

\* return_client (lines 461-475) up to its first suspension: a connected
\* client is queued; any other is dropped from the count, and replaced only
\* when the count fell below min_connections.
ReturnClient(w, connected) ==
    /\ workers[w] = "using"
    /\ IF connected
       THEN /\ available_clients' = available_clients + 1
            /\ workers' = [workers EXCEPT ![w] = "idle"]
            /\ UNCHANGED total_clients
       ELSE /\ total_clients' = total_clients - 1
            /\ workers' = [workers EXCEPT ![w] =
                              IF total_clients - 1 < min_connections
                              THEN "replace" ELSE "idle"]
            /\ UNCHANGED available_clients
    /\ UNCHANGED <<lock, to_initialize, min_connections, max_connections>>
    /\ UNCHANGED <<coreVars, concVars, clientVars>>

\* The connect of the replacement is over (lines 472-473): the client is
\* counted and queued.
FinishReplace(w) ==
    /\ workers[w] = "replace"
    /\ total_clients' = total_clients + 1
    /\ available_clients' = available_clients + 1
    /\ workers' = [workers EXCEPT ![w] = "idle"]
    /\ UNCHANGED <<lock, to_initialize, min_connections, max_connections>>
    /\ UNCHANGED <<coreVars, concVars, clientVars>>

\* close_pool (lines 485-502): the queue is emptied and the count set to 0;
\* nothing in it suspends.
ClosePool ==
    /\ available_clients' = 0
    /\ total_clients' = 0
    /\ UNCHANGED <<lock, workers, to_initialize, min_connections, max_connections>>
    /\ UNCHANGED <<coreVars, concVars, clientVars>>

\* The tasks of the pool without close_pool.
UseNext ==
    \/ InitializeStep
    \/ \E w \in Workers :
          \/ GetClient(w)
          \/ AcquireLock(w)
          \/ FinishCreate(w)
          \/ TakeFromQueue(w)
          \/ \E connected \in BOOLEAN : ReturnClient(w, connected)
          \/ FinishReplace(w)

PoolNext == UseNext \/ ClosePool

PoolSpec == PoolInit /\ [][PoolNext]_vars

\* Fair scheduling: a task that can run does run; the lock and the queue
\* serve a task that waits on them; every client in use is returned.
Fairness ==
    /\ WF_vars(InitializeStep)
    /\ \A w \in Workers :
          /\ SF_vars(AcquireLock(w))
          /\ WF_vars(FinishCreate(w))
          /\ SF_vars(TakeFromQueue(w))
          /\ WF_vars(\E connected \in BOOLEAN : ReturnClient(w, connected))
          /\ WF_vars(FinishReplace(w))

FairPoolSpec == PoolInit /\ [][UseNext]_vars /\ Fairness

----------------------------------------------------------------------------
(* Claims about fetch and get_notice, checked under FetchSpec *)

Got2xx(o) == o.kind = "response" /\ o.status \in 200..299

Last(seq) == seq[Len(seq)]

\* C1: fetch returns the body of the first attempt that gets a 2xx response,
\* issues no request after it, fails only when three attempts have all
\* failed, and never makes a fourth attempt.
C1_ThreeAttempts ==
    /\ Len(outcomes) <= 3
    /\ Len(requests) = Len(outcomes)
    /\ \A i \in 1..(Len(outcomes) - 1) : ~Got2xx(outcomes[i])
    /\ (outcomes # <<>> /\ Got2xx(Last(outcomes))) =>
           fetched = [kind |-> "return", text |-> Last(outcomes).text]
    /\ fetched.kind = "return" => Got2xx(Last(outcomes))
    /\ fetched.kind = "raise" =>
           Len(outcomes) = 3 /\ \A i \in 1..3 : ~Got2xx(outcomes[i])
    /\ (Len(outcomes) = 3 /\ ~Got2xx(outcomes[3])) => fetched.kind = "raise"

\* Two failed attempts, then a 2xx response on the third.
C1_Witness ==
    /\ Len(outcomes) = 3
    /\ fetched.kind = "return"
    /\ fetched.text = outcomes[3].text

\* C2: when all three attempts fail, the error the caller gets is the
\* failure of the third attempt itself, and no body is returned.
C2_LastFailureItself ==
    (Len(outcomes) = 3 /\ \A i \in 1..3 : ~Got2xx(outcomes[i])) =>
        /\ fetched.kind = "raise"
        /\ fetched.exc = Failure(outcomes[3]).exc
        /\ ret.kind = "raise"
        /\ ret.exc = Failure(outcomes[3]).exc

NonSuccess(o) == o.kind = "response" /\ o.status \notin 200..299

\* C3: a response of any status outside 2xx is a failed attempt: its body is
\* never what fetch returns, a retry follows it while attempts remain, and
\* fetch fails when it is the third.
C3_Non2xxIsFailure ==
    \A i \in 1..Len(outcomes) :
        NonSuccess(outcomes[i]) =>
            /\ ~(fetched.kind = "return" /\ i = Len(outcomes))
            /\ i < 3 => \/ i < Len(outcomes)
                        \/ pc = "sleep"
                        \/ pc = "attempt" /\ attempt_number = i + 1
            /\ i = 3 => fetched.kind = "raise"

\* A 1xx and a 3xx response, each followed by a retry, then a success.
C3_Witness ==
    /\ Len(outcomes) = 3
    /\ NonSuccess(outcomes[1]) /\ outcomes[1].status = 101
    /\ NonSuccess(outcomes[2]) /\ outcomes[2].status = 301
    /\ fetched.kind = "return"

\* C4: get_notice called with notice_id and url both absent or empty fails
\* with the invalid-argument error and issues no request.
C4_NoArgumentNoFetch ==
    (pc # "idle" /\ ~Truthy(notice_id) /\ ~Truthy(url)) =>
        /\ pc = "done"
        /\ ret = [kind |-> "raise", exc |-> "ValueError"]
        /\ requests = <<>>
        /\ outcomes = <<>>
        /\ fetched = Nothing

\* get_notice called with an empty notice_id and no url.
C4_Witness ==
    /\ pc = "done"
    /\ notice_id = PyStr(<<>>)
    /\ url = PyNone
    /\ ret = [kind |-> "raise", exc |-> "ValueError"]

\* C19: the waits between consecutive attempts are non-decreasing and each
\* lies between 0.8 and 2 seconds (8 and 20 tenths); there is one wait after
\* each failed attempt that is followed by another attempt, so none before
\* the first attempt and none after the last.
C19_DelaysInRange ==
    /\ \A i \in 1..Len(delays) : delays[i] >= 8 /\ delays[i] <= 20
    /\ \A i \in 1..Len(delays) : \A j \in i..Len(delays) : delays[i] <= delays[j]
    /\ Len(delays) <= 2
    /\ pc = "attempt" => Len(delays) = Len(outcomes) /\ Len(delays) = attempt_number - 1
    /\ pc \in {"sleep", "parse"} => Len(delays) = Len(outcomes) - 1
    /\ (pc = "done" /\ outcomes # <<>>) => Len(delays) = Len(outcomes) - 1
    /\ outcomes = <<>> => delays = <<>>

\* Three attempts: a wait of 1 second, then a wait of 2 seconds.
C19_Witness ==
    /\ Len(outcomes) = 3
    /\ delays = <<10, 20>>

\* C18 (under CancelSpec): a cancellation ends the invocation with
\* CancelledError: the cancelled attempt is the last one, it is not followed
\* by a wait or another attempt, it is not turned into a RetryError, and a
\* cancellation during the wait starts no attempt either.
C18_CancelStopsFetch ==
    /\ \A i \in 1..Len(outcomes) :
           outcomes[i] = CancelledOutcome =>
               /\ i = Len(outcomes)
               /\ pc = "done"
               /\ fetched = [kind |-> "raise", exc |-> "CancelledError"]
               /\ ret = [kind |-> "raise", exc |-> "CancelledError"]
    /\ (ret.kind = "raise" /\ ret.exc = "CancelledError") =>
           /\ pc = "done"
           /\ fetched = [kind |-> "raise", exc |-> "CancelledError"]
           /\ Len(requests) = Len(outcomes)
           /\ Len(outcomes) <= 3

\* The second attempt, started after a failed first attempt and its wait, is
\* cancelled in flight.
C18_Witness ==
    /\ pc = "done"
    /\ Len(outcomes) = 2
    /\ outcomes[2] = CancelledOutcome
    /\ Len(delays) = 1
    /\ ret = [kind |-> "raise", exc |-> "CancelledError"]

\* C20: get_notice requests <base>/notices/<notice_id> when only notice_id
\* is given and the given url, unchanged, whenever url is given; the
\* source_url of the record it returns is the URL it requested.
C20_SourceUrlIsFetchedUrl ==
    /\ \A i \in 1..Len(requests) :
           /\ (Truthy(notice_id) /\ ~Truthy(url)) =>
                  requests[i] = PyStr(BASE \o <<"/","n","o","t","i","c","e","s","/">>
                                           \o notice_id.s)
           /\ Truthy(url) => requests[i] = url
    /\ ret.kind = "return" =>
           /\ requests # <<>>
           /\ ret.value[kSourceUrl] = Last(requests)

----------------------------------------------------------------------------
(* Claims about parse_notice, checked under NoticeSpec *)


NoticeDone == n_pc = "done"

\* What json.loads makes of each block.
Loaded(blocks) == [i \in 1..Len(blocks) |-> json_loads(blocks[i])]

\* The blocks that parse to a dictionary holding key k.
DictBlocksWith(loaded, k) ==
    {i \in 1..Len(loaded) :
        loaded[i].ok /\ loaded[i].v.type = "dict" /\ k \in DOMAIN loaded[i].v.d}

\* The structured-data value of key k: that of the last block, in document
\* order, that parses to a dictionary holding k; None when there is none.
StructuredValueOf(loaded, k) ==
    IF DictBlocksWith(loaded, k) = {} THEN PyNone
    ELSE loaded[Max(DictBlocksWith(loaded, k))].v.d[k]

StructuredValue(blocks, k) == StructuredValueOf(Loaded(blocks), k)

HtmlValue(els, k) ==
    CASE k = kTitle -> HtmlTitle(els)
      [] k = kBuyer -> HtmlBuyer(els)
      [] k = kDescription -> HtmlDescription(els)
      [] k = kPublishedAt -> HtmlPublishedAt(els)
      [] k = kDeadlineAt -> HtmlDeadlineAt(els)
      [] k = kCpv -> HtmlCpv(els)

CascadeKeys == {kTitle, kBuyer, kDescription, kPublishedAt, kDeadlineAt, kCpv}

\* C5: for every page and every url, parse_notice's source_url is the url it
\* was called with, also when a JSON-LD block of the page carries a
\* source_url key.
C5_SourceUrlIsInputUrl == NoticeDone => n_out[kSourceUrl] = PyStr(n_url)

\* C6: each of title, buyer, description, published_at, deadline_at and cpv
\* ends as the structured-data value when that value is truthy, and as the
\* HTML cascade's value otherwise.
C6_StructuredDataWins ==
    NoticeDone =>
        LET loaded == Loaded(n_html.blocks)
        IN  \A k \in CascadeKeys :
                n_out[k] = IF Truthy(StructuredValueOf(loaded, k))
                           THEN StructuredValueOf(loaded, k)
                           ELSE HtmlValue(n_html.els, k)

\* A page whose structured data and HTML both give a title, and differ.
C6_Witness ==
    /\ NoticeDone
    /\ Truthy(StructuredValue(n_html.blocks, kTitle))
    /\ Truthy(HtmlTitle(n_html.els))
    /\ HtmlTitle(n_html.els) # StructuredValue(n_html.blocks, kTitle)
    /\ n_out[kTitle] = StructuredValue(n_html.blocks, kTitle)

FailsToParse(block) == ~json_loads(block).ok

HasFailingBlock(html) == \E i \in 1..Len(html.blocks) : FailsToParse(html.blocks[i])

\* The page without its blocks that fail to parse.
WithoutFailingBlocks(html) ==
    [html EXCEPT !.blocks = SelectSeq(html.blocks, LAMBDA b : ~FailsToParse(b))]

HtmlDerivedKeys == CascadeKeys \cup {kAttachments}

\* C7 as stated, on the pages that have a body: with a block that fails to
\* parse on the page, title, buyer, description, the timestamps, cpv,
\* attachments and raw_html are exactly what they are for the page without
\* that block.
C7_AllFieldsAsWithoutBlock ==
    (NoticeDone /\ HasFailingBlock(n_html) /\ n_html.body) =>
        LET without == parse_notice(WithoutFailingBlocks(n_html), n_url)
        IN  \A k \in HtmlDerivedKeys \cup {kRawHtml} : n_out[k] = without[k]

\* C7 as amended: with a block that fails to parse on the page, parse_notice
\* returns; title, buyer, description, the timestamps, cpv and attachments
\* are exactly what they are for the page without that block, and raw_html
\* is populated.
C7_FieldsAsWithoutBlock ==
    (NoticeDone /\ HasFailingBlock(n_html)) =>
        LET without == parse_notice(WithoutFailingBlocks(n_html), n_url)
        IN  /\ \A k \in HtmlDerivedKeys : n_out[k] = without[k]
            /\ kRawHtml \in DOMAIN n_out

\* A failing block first, a dictionary block after it, and an HTML title.
C7_Witness ==
    /\ NoticeDone
    /\ Len(n_html.blocks) = 2
    /\ FailsToParse(n_html.blocks[1])
    /\ Truthy(StructuredValue(n_html.blocks, kDeadlineAt))
    /\ n_out[kDeadlineAt] = StructuredValue(n_html.blocks, kDeadlineAt)
    /\ ~Truthy(StructuredValue(n_html.blocks, kTitle))
    /\ Truthy(n_out[kTitle])

\* a is a prefix of b, for strs.
IsPrefix(a, b) ==
    \/ a.pad = 0 /\ Len(a.s) <= Len(b.s) /\ SubSeq(b.s, 1, Len(a.s)) = a.s
    \/ a.s = b.s /\ a.pad <= b.pad

\* The text raw_html is cut from: the body's text when there is a body, the
\* input itself otherwise.
PageText(html) == IF html.body THEN BodyText(html) ELSE SourceText(html)

\* C8: raw_html is at most 200,000 long, is a prefix of the body text when
\* there is a body and of the input otherwise, and is the whole of that text
\* when the text is at most 200,000 long.
C8_RawHtmlCapped ==
    NoticeDone =>
        /\ StrLen(n_out[kRawHtml]) <= 200000
        /\ IsPrefix(n_out[kRawHtml], PageText(n_html))
        /\ StrLen(PageText(n_html)) <= 200000 =>
               StrLen(n_out[kRawHtml]) = StrLen(PageText(n_html))

\* A page whose text is longer than the cap.
C8_Witness ==
    /\ NoticeDone
    /\ StrLen(PageText(n_html)) > 200000
    /\ StrLen(n_out[kRawHtml]) = 200000

IsAbsoluteUrl(u) ==
    \E scheme \in {<<"h","t","t","p",":","/","/">>, <<"h","t","t","p","s",":","/","/">>} :
        StartsWith(u, scheme) /\ Len(u) > Len(scheme) /\ u[Len(scheme) + 1] # "/"

\* A relative href resolved on the site base; an absolute one unchanged.
ResolvedOnBase(h) ==
    IF IsAbsoluteUrl(h) THEN h
    ELSE IF StartsWith(h, <<"/">>) THEN BASE \o h
    ELSE BASE \o <<"/">> \o h

OnSiteBase(u) == u = BASE \/ StartsWith(u, BASE \o <<"/">>)

UsableAnchors(els) == SelectSeq(Css(els, "a[href$='.pdf'], a[href*='/Document/'], a[href*='/document/']"), LAMBDA a : Truthy(AttrGet(a, "href")))

\* C9: the attachments are the anchors with a usable href, in order; each
\* url is a valid absolute URL: an absolute href unchanged, a relative href
\* (with or without a leading slash) resolved on the site base.
C9_AttachmentUrlsAbsolute ==
    NoticeDone =>
        LET atts == n_out[kAttachments].items
            anchors == UsableAnchors(n_html.els)
        IN  /\ Len(atts) = Len(anchors)
            /\ \A i \in 1..Len(atts) :
                   LET h == AttrGet(anchors[i], "href").s
                       u == atts[i].d[kUrl].s
                   IN  /\ u = ResolvedOnBase(h)
                       /\ IsAbsoluteUrl(u)
                       /\ IsAbsoluteUrl(h) \/ OnSiteBase(u)

----------------------------------------------------------------------------
(* Claims about parse_search, checked under SearchSpec *)

SearchDone == s_pc = "done"

\* The notices link of a card, or NoNode.
NoticesLink(card) == CssFirst(card, "a[href*='/notices/']")

\* The title the cascade yields, stated from the card: the first non-empty
\* of the .notice-title text, the first heading's text, the link's text.
ResolvedTitle(card) ==
    LET t1 == CardTxt(card, ".notice-title").s
        t2 == CardTxt(card, "h2, h3").s
        t3 == IF Found(NoticesLink(card)) THEN Strip(NoticesLink(card).text) ELSE <<>>
    IN  IF t1 # <<>> THEN t1 ELSE IF t2 # <<>> THEN t2 ELSE t3

\* A card yields a link and a title, both non-empty.
YieldsLinkAndTitle(card) ==
    /\ Found(NoticesLink(card))
    /\ AttrGet(NoticesLink(card), "href").s # <<>>
    /\ ResolvedTitle(card) # <<>>

\* C10: parse_search emits one summary for each card that yields both a
\* non-empty link and a non-empty title, and none for any other card; every
\* emitted summary has a non-empty title and a non-empty link.
C10_EmittedIffLinkAndTitle ==
    SearchDone =>
        /\ Len(s_items) = Len(SelectSeq(MatchedCards(s_html), YieldsLinkAndTitle))
        /\ \A i \in 1..Len(s_items) :
               /\ s_items[i].d[kTitle].type = "str" /\ s_items[i].d[kTitle].s # <<>>
               /\ s_items[i].d[kLink].type = "str" /\ s_items[i].d[kLink].s # <<>>
               /\ s_items[i].d[kTitle].s =
                      ResolvedTitle(SelectSeq(MatchedCards(s_html), YieldsLinkAndTitle)[i])

\* A page of two cards: one has a link and a title and is emitted, the other
\* has a link but no title to resolve and is dropped.
C10_Witness ==
    /\ SearchDone
    /\ Len(MatchedCards(s_html)) = 2
    /\ Len(s_items) = 1
    /\ \E i \in 1..2 :
           /\ Found(NoticesLink(MatchedCards(s_html)[i]))
           /\ ResolvedTitle(MatchedCards(s_html)[i]) = <<>>

\* C11: every summary parse_search emits has a link that starts with the site
\* base, whatever the form of the href the notices-link selector matched.
C11_LinkStartsWithBase ==
    SearchDone =>
        \A i \in 1..Len(s_items) : StartsWith(s_items[i].d[kLink].s, BASE)

DedicatedTitle(card) == CardTxt(card, ".notice-title").s

\* The text of the card's first heading, "" without one.
FirstHeading(card) == CardTxt(card, "h2, h3").s

\* The text of the card's notices link, "" without one.
LinkText(card) ==
    IF Found(NoticesLink(card)) THEN Strip(NoticesLink(card).text) ELSE <<>>

\* The card has a notices link with an href and neither a title element nor
\* a heading with text.
LinkWithoutExplicitTitle(card) ==
    /\ Found(NoticesLink(card))
    /\ AttrGet(NoticesLink(card), "href").s # <<>>
    /\ DedicatedTitle(card) = <<>>
    /\ FirstHeading(card) = <<>>

\* C13 as stated: every card with a link and no explicit title is emitted,
\* with the link's own text as its title.
C13_LinkOnlyCardEmitted ==
    SearchDone =>
        \A j \in 1..Len(MatchedCards(s_html)) :
            LinkWithoutExplicitTitle(MatchedCards(s_html)[j]) =>
                \E i \in 1..Len(s_items) :
                    /\ s_items[i].d[kTitle].s = LinkText(MatchedCards(s_html)[j])
                    /\ EndsWith(s_items[i].d[kLink].s,
                                AttrGet(NoticesLink(MatchedCards(s_html)[j]), "href").s)

\* C13: the title of an emitted card is the text of its title element when
\* that is non-empty, else the text of its first heading when that is
\* non-empty, else the text of its notices link; a card with a link and no
\* explicit title is emitted, with the link's text as title, exactly when
\* that text is non-empty.
C13_TitleCascade ==
    SearchDone =>
        LET emitted == SelectSeq(MatchedCards(s_html), YieldsLinkAndTitle)
            linkOnly == SelectSeq(MatchedCards(s_html), LinkWithoutExplicitTitle)
        IN  /\ Len(s_items) = Len(emitted)
            /\ \A i \in 1..Len(emitted) :
                   LET title == s_items[i].d[kTitle].s
                   IN  /\ DedicatedTitle(emitted[i]) # <<>> =>
                              title = DedicatedTitle(emitted[i])
                       /\ (DedicatedTitle(emitted[i]) = <<>> /\ FirstHeading(emitted[i]) # <<>>) =>
                              title = FirstHeading(emitted[i])
                       /\ (DedicatedTitle(emitted[i]) = <<>> /\ FirstHeading(emitted[i]) = <<>>) =>
                              title = LinkText(emitted[i])
            /\ \A j \in 1..Len(linkOnly) :
                   (LinkText(linkOnly[j]) # <<>>) <=>
                       \E i \in 1..Len(emitted) :
                           /\ emitted[i] = linkOnly[j]
                           /\ s_items[i].d[kTitle].s = LinkText(linkOnly[j])

\* A card whose title element is blank and that has no heading is emitted
\* with the text of its link as title.
C13_Witness ==
    /\ SearchDone
    /\ Len(s_items) = 1
    /\ Len(MatchedCards(s_html)) = 1
    /\ Found(CssFirst(MatchedCards(s_html)[1], ".notice-title"))
    /\ LinkWithoutExplicitTitle(MatchedCards(s_html)[1])
    /\ s_items[1].d[kTitle].s = <<"V","i","e","w">>

----------------------------------------------------------------------------
(* Claims about build_search_url, checked under UrlSpec *)

UrlDone == u_pc = "done"

Param(k) == DictGet(u_p, k)

\* The text after the first "?" of a URL.
QueryString(u) ==
    LET i == CHOOSE i \in 1..Len(u) : u[i] = "?" /\ \A j \in 1..(i - 1) : u[j] # "?"
    IN  SubSeq(u, i + 1, Len(u))

\* s.split(c)
RECURSIVE SplitOn(_, _)
SplitOn(s, c) ==
    IF \A i \in 1..Len(s) : s[i] # c THEN <<s>>
    ELSE LET i == CHOOSE i \in 1..Len(s) : s[i] = c /\ \A j \in 1..(i - 1) : s[j] # c
         IN  <<SubSeq(s, 1, i - 1)>> \o SplitOn(SubSeq(s, i + 1, Len(s)), c)

\* The character a percent escape stands for.
Unescaped(a, b) ==
    CASE <<a, b>> = <<"2", "C">> -> ","
      [] <<a, b>> = <<"2", "6">> -> "&"
      [] <<a, b>> = <<"3", "D">> -> "="
      [] <<a, b>> = <<"2", "F">> -> "/"
      [] <<a, b>> = <<"3", "A">> -> ":"
      [] <<a, b>> = <<"2", "B">> -> "+"
      [] <<a, b>> = <<"2", "5">> -> "%"
      [] OTHER -> "?"

\* What a server reads back from one URL-encoded component.
RECURSIVE Unquote(_)
Unquote(s) ==
    IF s = <<>> THEN <<>>
    ELSE IF s[1] = "+" THEN <<" ">> \o Unquote(Tail(s))
    ELSE IF s[1] = "%" /\ Len(s) >= 3
         THEN <<Unescaped(s[2], s[3])>> \o Unquote(SubSeq(s, 4, Len(s)))
    ELSE <<s[1]>> \o Unquote(Tail(s))

\* The decoded key/value pairs of the query string of a URL, in order.
QueryPairs(u) ==
    LET q == QueryString(u)
        parts == SplitOn(q, "&")
    IN  IF q = <<>> THEN <<>>
        ELSE [i \in 1..Len(parts) |->
                 LET kv == SplitOn(parts[i], "=")
                 IN  [k |-> Unquote(kv[1]), v |-> Unquote(kv[2])]]

\* Where a key occurs among the pairs of a URL.
KeyIndices(u, key) == {i \in 1..Len(QueryPairs(u)) : QueryPairs(u)[i].k = key}

RECURSIVE NatOf(_)
NatOf(s) ==
    IF s = <<>> THEN 0
    ELSE 10 * NatOf(SubSeq(s, 1, Len(s) - 1)) + DigitValue(s[Len(s)])

IsDigits(s) == s # <<>> /\ \A i \in 1..Len(s) : s[i] \in JsonDigits

PageKey == <<"p","a","g","e">>

\* C14: the URL has a page key if and only if page is strictly greater than
\* 1: with page omitted, None, or at most 1 there is no page key, and for
\* every page >= 2 there is exactly one, whose value is the page number.
C14_PageKeyIffOverOne ==
    (UrlDone /\ u_out.kind = "return" /\ Param("page").type \in {"none", "num"}) =>
        LET I == KeyIndices(u_out.url, PageKey)
        IN  IF Param("page").type = "num" /\ Param("page").n >= 2
            THEN /\ Cardinality(I) = 1
                 /\ \A i \in I :
                       /\ IsDigits(QueryPairs(u_out.url)[i].v)
                       /\ NatOf(QueryPairs(u_out.url)[i].v) = Param("page").n
            ELSE I = {}

\* A search for a text on page 12: the URL ends with page=12.
C14_Witness ==
    /\ UrlDone
    /\ Param("page") = PyNum(12)
    /\ Truthy(Param("q"))
    /\ u_out.kind = "return"
    /\ EndsWith(u_out.url, <<"&","p","a","g","e","=","1","2">>)

\* The eight parameters other than page.
FieldNames == {ParamKeys[i] : i \in 1..8}

SearchEndpoint == BASE \o <<"/","s","e","a","r","c","h">>

\* C15: each of the eight fields other than page puts its query key in the
\* URL, once, if and only if the field is present and non-empty, whatever the
\* other fields are; with no non-empty field and no page key the URL is the
\* search endpoint followed by an empty query string.
C15_FieldKeyIffNonEmpty ==
    (UrlDone /\ u_out.kind = "return") =>
        /\ \A k \in FieldNames :
              Cardinality(KeyIndices(u_out.url, QueryKey(k))) =
                  IF Truthy(Param(k)) THEN 1 ELSE 0
        /\ ((\A k \in FieldNames : ~Truthy(Param(k)))
               /\ KeyIndices(u_out.url, PageKey) = {}) =>
              u_out.url = SearchEndpoint \o <<"?">>

\* A text, an empty buyer and a county: only query and county are emitted.
C15_Witness ==
    /\ UrlDone
    /\ DOMAIN u_p = {"q", "buyer", "county"}
    /\ u_p["buyer"] = PyStr(<<>>)
    /\ u_out.kind = "return"
    /\ u_out.url = SearchEndpoint \o
          <<"?","q","u","e","r","y","=","a","+","b","&",
            "c","o","u","n","t","y","=","O","%","3","D","1">>

\* Every field absent, None or empty: the bare endpoint.
C15_EmptyWitness ==
    /\ UrlDone
    /\ DOMAIN u_p = {"q", "cpv", "page"}
    /\ u_p["q"] = PyStr(<<>>) /\ u_p["cpv"] = PyList(<<>>) /\ u_p["page"] = PyNum(1)
    /\ u_out = [kind |-> "return", url |-> SearchEndpoint \o <<"?">>]

CodesKey == <<"c","p","v","C","o","d","e","s","L","a","b","e","l">>

\* The codes of a parameter set, when cpv is a non-empty list of str.
HasCodes == Param("cpv").type = "list" /\ Param("cpv").items # <<>> /\ AllStr(Param("cpv").items)

\* C16: a non-empty list of classification codes gives exactly one codes key
\* in the URL; its value, split at the commas, is the list of codes in input
\* order.
C16_CodesJoinedInOneKey ==
    (UrlDone /\ u_out.kind = "return" /\ HasCodes) =>
        LET I == KeyIndices(u_out.url, CodesKey)
        IN  /\ Cardinality(I) = 1
            /\ \A i \in I :
                  SplitOn(QueryPairs(u_out.url)[i].v, ",") =
                      [j \in 1..Len(Param("cpv").items) |-> Param("cpv").items[j].s]

\* Two codes and a page: one key with both codes, the comma percent-encoded.
C16_Witness ==
    /\ UrlDone
    /\ DOMAIN u_p = {"cpv", "page"}
    /\ u_p["cpv"].type = "list"
    /\ Len(u_p["cpv"].items) = 2
    /\ u_out.kind = "return"
    /\ u_out.url = SearchEndpoint \o
          <<"?","c","p","v","C","o","d","e","s","L","a","b","e","l","=",
            "7","2","%","2","C","4","8","&","p","a","g","e","=","2">>

\* A page that is given and is not a number.
MalformedPage == Param("page").type \notin {"none", "num", "bool"}

\* A codes value that is given and is not a list of strings.
MalformedCodes ==
    /\ Param("cpv").type # "none"
    /\ ~(Param("cpv").type = "list" /\ AllStr(Param("cpv").items))

\* C17: build_search_url has no error outcome: for every parameter set it
\* returns a URL, and a page that is not a number or a codes value that is
\* not a list of strings leaves no key in that URL.
C17_NoErrorOutcome ==
    UrlDone =>
        /\ u_out.kind = "return"
        /\ MalformedPage => KeyIndices(u_out.url, PageKey) = {}
        /\ MalformedCodes => KeyIndices(u_out.url, CodesKey) = {}

\* The part of C17 that the code does keep: the only error is a TypeError, and
\* it is raised only for a malformed page or codes value.
C17_RaisesOnlyOnMalformed ==
    UrlDone =>
        /\ u_out.kind \in {"return", "raise"}
        /\ u_out.kind = "raise" =>
              /\ u_out.exc = "TypeError"
              /\ MalformedPage \/ MalformedCodes

----------------------------------------------------------------------------
(* Claims about the two tools, checked under ToolSpec *)

\* C21: in both tools the parser runs only on a body fetch returned; when the
\* three attempts of fetch have failed its error is the tool's outcome, the
\* tool returns no record, and an invocation never issues a fourth request.
C21_FailurePropagates ==
    /\ Len(requests) <= 3
    /\ pc = "parse" => fetched.kind = "return"
    /\ ret.kind = "return" =>
          /\ fetched.kind = "return"
          /\ Got2xx(Last(outcomes))
          /\ fetched.text = Last(outcomes).text
    /\ fetched.kind = "raise" =>
          /\ pc = "done"
          /\ ret = fetched
          /\ Len(requests) = 3
          /\ \A i \in 1..3 : ~Got2xx(outcomes[i])

\* A search whose three requests all failed.
C21_Witness ==
    /\ u_pc = "done"
    /\ pc = "done"
    /\ Len(requests) = 3
    /\ ret.kind = "raise"
    /\ fetched.kind = "raise"
    /\ outcomes[3].kind = "response"

----------------------------------------------------------------------------
(* Claims about calls of fetch in progress at once, checked under ConcSpec *)

\* What a call that met the responses os must end with: the body of a 2xx
\* response that no 2xx response precedes, or an error after three failures.
OwnResult(os, result) ==
    /\ Len(os) \in 1..3
    /\ \A k \in 1..(Len(os) - 1) : ~Got2xx(os[k])
    /\ IF Got2xx(Last(os))
       THEN result = [kind |-> "return", text |-> Last(os).text]
       ELSE Len(os) = 3 /\ result.kind = "raise"

\* C22: every call of fetch starts at attempt 1 with three attempts to use,
\* whatever ended before it, and with several calls in progress the number
\* of attempts and the result of each follow from its own responses alone.
C22_CallsIndependent ==
    \A i \in DOMAIN fetches :
        /\ fetches[i].pc = "attempt" =>
              /\ fetches[i].attempt_number = Len(fetches[i].outcomes) + 1
              /\ fetches[i].attempt_number <= 3
              /\ \A k \in 1..Len(fetches[i].outcomes) : ~Got2xx(fetches[i].outcomes[k])
        /\ fetches[i].pc = "sleep" =>
              /\ Len(fetches[i].outcomes) \in 1..2
              /\ \A k \in 1..Len(fetches[i].outcomes) : ~Got2xx(fetches[i].outcomes[k])
        /\ fetches[i].pc = "done" => OwnResult(fetches[i].outcomes, fetches[i].result)

\* Two calls in progress: one waits after its first failure while the other
\* is at its third attempt.
C22_Witness ==
    /\ fetches # <<>>
    /\ fetches[1].pc = "sleep" /\ Len(fetches[1].outcomes) = 1
    /\ fetches[2].pc = "attempt" /\ fetches[2].attempt_number = 3

----------------------------------------------------------------------------
(* Claims about the merge of the structured-data blocks, under NoticeSpec *)

\* The block parses to a dictionary.
Contributes(block) == json_loads(block).ok /\ json_loads(block).v.type = "dict"

\* The page with only the blocks that parse to a dictionary, in their order.
OnlyDictBlocks(html) ==
    [html EXCEPT !.blocks = SelectSeq(html.blocks, LAMBDA b : Contributes(b))]

\* C23: the dictionary blocks are merged key by key in document order before
\* the HTML fallback: for a key the fallback leaves alone (source_url) the
\* value is that of the last block holding it; for a key of the cascade the
\* last block holding it decides, so that a later empty value sends the key
\* to the HTML value even when an earlier block had a value; and a block
\* that fails to parse or parses to a non-dictionary changes no key of the
\* record but raw_html, wherever it stands among the other blocks.
C23_MergeInDocumentOrder ==
    NoticeDone =>
        LET loaded == Loaded(n_html.blocks)
            only == parse_notice(OnlyDictBlocks(n_html), n_url)
        IN  /\ n_out[kSourceUrl] =
                  IF DictBlocksWith(loaded, kSourceUrl) = {} THEN PyStr(n_url)
                  ELSE StructuredValueOf(loaded, kSourceUrl)
            /\ \A k \in CascadeKeys :
                  DictBlocksWith(loaded, k) # {} =>
                      n_out[k] = IF Truthy(loaded[Max(DictBlocksWith(loaded, k))].v.d[k])
                                 THEN loaded[Max(DictBlocksWith(loaded, k))].v.d[k]
                                 ELSE HtmlValue(n_html.els, k)
            /\ DOMAIN n_out = DOMAIN only
            /\ \A k \in DOMAIN n_out \ {kRawHtml} : n_out[k] = only[k]

\* Two dictionary blocks with different titles, the later one's title wins.
C23_Witness ==
    /\ NoticeDone
    /\ Len(n_html.blocks) = 2
    /\ Contributes(n_html.blocks[1]) /\ Contributes(n_html.blocks[2])
    /\ Truthy(StructuredValue(<<n_html.blocks[1]>>, kTitle))
    /\ Truthy(StructuredValue(<<n_html.blocks[2]>>, kTitle))
    /\ StructuredValue(<<n_html.blocks[1]>>, kTitle) # StructuredValue(<<n_html.blocks[2]>>, kTitle)
    /\ n_out[kTitle] = StructuredValue(<<n_html.blocks[2]>>, kTitle)

\* An earlier title, a later empty title, and the HTML title in the record.
C23_EmptyOverwritesWitness ==
    /\ NoticeDone
    /\ Len(n_html.blocks) = 2
    /\ Contributes(n_html.blocks[1]) /\ Contributes(n_html.blocks[2])
    /\ Truthy(StructuredValue(<<n_html.blocks[1]>>, kTitle))
    /\ DictBlocksWith(Loaded(n_html.blocks), kTitle) = {1, 2}
    /\ ~Truthy(StructuredValue(n_html.blocks, kTitle))
    /\ Truthy(HtmlTitle(n_html.els))
    /\ n_out[kTitle] = HtmlTitle(n_html.els)

----------------------------------------------------------------------------
(* Claims about the order of parse_search's summaries, under SearchSpec *)

\* The matched cards that pass the inclusion test, in document order.
PassingCards == SelectSeq(MatchedCards(s_html), YieldsLinkAndTitle)

C24_DuplicateWitness ==
    /\ SearchDone
    /\ Len(s_html.cards) = 2
    /\ s_html.cards[1] = s_html.cards[2]
    /\ ~s_html.unclosed
    /\ Len(s_items) = 2
    /\ s_items[1] = s_items[2]

----------------------------------------------------------------------------
(* Claims about the timestamps of a summary, under SearchSpec *)

TimestampKeys == {kPublishedAt, kDeadlineAt}

\* The time element with a datetime attribute of a timestamp, or NoNode.
TimeElement(card, k) ==
    IF k = kPublishedAt THEN CssFirst(card, "time[datetime][data-test='published']")
    ELSE CssFirst(card, "time[datetime][data-test='deadline']")

\* The visible text of the published/deadline element of a card.
VisibleText(card, k) ==
    IF k = kPublishedAt THEN CardTxt(card, ".notice-published, [data-test='published']")
    ELSE CardTxt(card, ".notice-deadline, [data-test='deadline']")

\* C25: published_at and deadline_at are the datetime attribute of the
\* matching time element when there is one, the visible text of the
\* published/deadline element otherwise, and None only when neither the
\* attribute nor the visible text is non-empty.
C25_NoneOnlyWhenBothEmpty ==
    SearchDone =>
        \A i \in 1..Len(s_items) : \A k \in TimestampKeys :
            /\ Found(TimeElement(PassingCards[i], k))
                  /\ Truthy(AttrGet(TimeElement(PassingCards[i], k), "datetime")) =>
                  s_items[i].d[k] = AttrGet(TimeElement(PassingCards[i], k), "datetime")
            /\ ~Found(TimeElement(PassingCards[i], k))
                  /\ Truthy(VisibleText(PassingCards[i], k)) =>
                  s_items[i].d[k] = VisibleText(PassingCards[i], k)
            /\ s_items[i].d[k] = PyNone =>
                  /\ ~Truthy(VisibleText(PassingCards[i], k))
                  /\ Found(TimeElement(PassingCards[i], k)) =>
                        ~Truthy(AttrGet(TimeElement(PassingCards[i], k), "datetime"))

\* The part of C25 the code keeps: the attribute of the time element when
\* there is one, the visible text otherwise, and None in place of an empty
\* value.
C25_AttributeElseText ==
    SearchDone =>
        \A i \in 1..Len(s_items) : \A k \in TimestampKeys :
            s_items[i].d[k] =
                OrNone(IF Found(TimeElement(PassingCards[i], k))
                       THEN AttrGet(TimeElement(PassingCards[i], k), "datetime")
                       ELSE VisibleText(PassingCards[i], k))

----------------------------------------------------------------------------
(* Claims about the keys of parse_notice's record, under NoticeSpec *)

RecordKeys ==
    {kSourceUrl, kTitle, kBuyer, kDescription, kPublishedAt, kDeadlineAt, kCpv,
     kAttachments, kRawHtml}

\* C26: the record of parse_notice holds all nine keys for every page, and
\* its attachments and raw_html are the ones derived from the HTML, also
\* when a structured-data block carries keys named attachments or raw_html.
C26_AttachmentsAndRawHtmlFromHtml ==
    NoticeDone =>
        /\ RecordKeys \subseteq DOMAIN n_out
        /\ n_out[kAttachments] =
              PyList(Attachments(Css(n_html.els,
                  "a[href$='.pdf'], a[href*='/Document/'], a[href*='/document/']")))
        /\ n_out[kRawHtml] = RawHtml(n_html)
        /\ n_out[kRawHtml].type = "str"
        /\ IsPrefix(n_out[kRawHtml], PageText(n_html))

\* A block carrying attachments and raw_html on a page with an attachment
\* link: the record has the link, and the text of the page.
C26_Witness ==
    /\ NoticeDone
    /\ StructuredValue(n_html.blocks, kAttachments) = PyList(<<>>)
    /\ DictBlocksWith(Loaded(n_html.blocks), kRawHtml) # {}
    /\ n_out[kAttachments].items # <<>>
    /\ n_out[kRawHtml] # StructuredValue(n_html.blocks, kRawHtml)

----------------------------------------------------------------------------
(* Claims about RobustMCPClient, checked under ClientSpec *)

\* Every call_tool invocation has returned or raised.
AllCompleted == \A i \in DOMAIN tool_calls : tool_calls[i].pc = "done"

\* The invocations that request validation rejected.
Rejected ==
    {i \in DOMAIN tool_calls : tool_calls[i].result = Raised("MCPValidationError")}

\* C27: once every call_tool invocation has completed, by returning or by
\* raising, rejection by request validation included, total_requests equals
\* successful_requests + failed_requests.
C27_CountersAddUp ==
    AllCompleted => total_requests = successful_requests + failed_requests

\* What the counters do satisfy: the rejected requests are counted in
\* total_requests and in neither of the other two.
C27_CountersButRejected ==
    AllCompleted =>
        total_requests = successful_requests + failed_requests + Cardinality(Rejected)

\* The invocation a result of the batch belongs to.
CallOf(r) == IF r.success THEN r.call ELSE r.tool

\* C28: batch_call_tools returns its results in the order of the input list,
\* whatever order the calls complete in, with fail_fast false and, when no
\* call fails, with fail_fast true.
C28_ResultsInInputOrder ==
    results.kind = "return" =>
        /\ Len(results.value) = Len(tool_calls)
        /\ \A k \in 1..Len(results.value) : CallOf(results.value[k]) = k

\* What holds of the two branches: gather's list is in input order, the
\* fail_fast list is in the order of completion.
C28_GatherInInputOrder ==
    results.kind = "return" =>
        /\ Len(results.value) = Len(tool_calls)
        /\ \A k \in 1..Len(results.value) :
              CallOf(results.value[k]) = IF batch = "gather" THEN k ELSE completed[k]

\* A gather batch whose second call ended first, returned in input order.
C28_GatherWitness ==
    /\ batch = "gather"
    /\ results.kind = "return"
    /\ completed = <<2, 1>>
    /\ CallOf(results.value[1]) = 1

----------------------------------------------------------------------------
(* Claims about ClientWithConnectionPool, checked under PoolSpec and        *)
(* FairPoolSpec                                                              *)

\* The clients checked out of the pool.
CheckedOut == Cardinality({w \in DOMAIN workers : workers[w] = "using"})

\* C29: with min_connections <= max_connections, in every state reachable by
\* interleaving initialize, get_client, return_client, call_tool and
\* close_pool, total_clients is within 0..max_connections and is at least the
\* number of clients checked out.
C29_TotalWithinBounds ==
    /\ total_clients >= 0
    /\ total_clients <= max_connections
    /\ total_clients >= CheckedOut

\* C29 without its upper bound.
C29_CountsCheckedOut == total_clients >= 0 /\ total_clients >= CheckedOut

\* The upper bound of C29 alone.
C29_AtMostMax == total_clients <= max_connections

\* Task w is inside get_client.
Getting(w) == workers[w] \in {"lock", "create", "get"}

\* C30: under fair scheduling, with every checked-out client eventually
\* handed to return_client, connected or not, every get_client call
\* eventually returns a client.
C30_GetterEventuallyServed ==
    \A w \in Workers : (workers # <<>> /\ Getting(w)) ~> (workers[w] = "using")

\* C30 for the pools that keep at least one client.
C30_ServedWhenMinPositive ==
    \A w \in Workers :
        (workers # <<>> /\ min_connections >= 1 /\ Getting(w)) ~> (workers[w] = "using")

\* The second part of C30: no getter stays blocked on the queue for ever
\* while total_clients is below max_connections.
C30_NotBlockedBelowMax ==
    \A w \in Workers :
        ~<>[](workers # <<>> /\ workers[w] = "get" /\ total_clients < max_connections)

====
